---- MODULE Spec2Model ----
(***************************************************************************)
(* A model of study-sync: the orchestrator's play state machine with its   *)
(* plays store and "current" singleton, the intake submitter and the       *)
(* remote intake service (specification Spec), and the generic             *)
(* priority-retry consumer loop (specification SpecChan).  SpecSingleton   *)
(* is Spec cut down to the writers of the singleton, SpecGames to the game *)
(* signals and screenshots, SpecSession to one failure-free session of one *)
(* game; SpecBacklog starts the program on any plays table.  SpecTimed is  *)
(* the loop with its clock, SpecBackoff the loop at any age and retry      *)
(* count, SpecExtension the file-extension helpers on any path.            *)
(* SpecReset is the loop with one more event after the first, SpecStartup  *)
(* the start of the program on a plays table and singleton, SpecOnline     *)
(* the fan-out of the server's IsOnline (SpecOnlineLive with the           *)
(* consumers scheduled fairly), SpecUploads the two uploaders.  SpecAcks   *)
(* is the acknowledgements of intake on any plays table, SpecSync the      *)
(* fan-out of ForceSync, SpecHalt the shutdown of uploaders with failing   *)
(* work, SpecDigest the saves of one game on one day with their digests,   *)
(* SpecExtra the scan of the extra directory next to the main loop, and    *)
(* SpecClosed the loop with its senders dropped.                           *)
(*                                                                         *)
(* Conventions.  Option<T> of a record is a sequence of length <= 1.       *)
(* Option<i64> / Option<String> row ids use 0 for None (SQLite rowids and  *)
(* the remote's rowids start at 1).  Option<u64> times are "None" or "t":  *)
(* the value of the wall clock is never inspected by the code modelled.    *)
(***************************************************************************)
EXTENDS Integers, Sequences, FiniteSets, TLC

\* ------------------------------------------------------------------ bounds
\* game signals and screenshots the orchestrator handles in one behaviour
MaxEvents == 3
\* process restarts explored
MaxRestarts == 1
\* events sent to a priority-retry loop in one behaviour
MaxSent == 3
\* Retry answers of the handler in one behaviour
MaxRetry == 2
\* the last value of the clock of a priority-retry loop, in seconds
MaxTime == 60
\* a loop whose backoff is examined: its retry counter and its age in seconds
MaxCount == 6
MaxElapsed == 150
\* rows of a plays table the backlog is loaded from
MaxRows == 2
\* HTTP requests of intake that fail in one behaviour
MaxBlips == 1
\* characters of a file name handed to the extension helpers
MaxLen == 5
\* database and filesystem calls that fail in one behaviour
MaxFaults == 1

VARIABLES
    ostate,          \* orchestrator task: "running" | "halted" | "failed"
    current_play,    \* Orchestrator.current_play : Option<Play>
    previous_play,   \* Orchestrator.previous_play : Option<Play>
    orx,             \* orchestrator queue: events sent by intake, not yet handled
    lastEv,          \* the event the orchestrator handled last, and what it notified
    plays,           \* plays table: sequence of rows, rowid = index
    current,         \* "current" table: sequence of rows, each a play rowid
    writes,          \* spawned save_currently_playing tasks not yet run
    conn,            \* the save closure the connection thread is running, if any
    istate,          \* intake task: "running" | "halted"
    irx,             \* intake queue
    ibuffer,         \* Intake.buffer
    play_to_intake,  \* Intake.play_to_intake
    srx,             \* screenshots queue
    remote,          \* remote intake service: sequence of rows, rowid = index
    restarts,        \* restarts so far
    rx,              \* PriorityRetryChannel::run: the queue it receives from
    buffer,          \* its local buffer (VecDeque)
    priority_event,  \* its local priority_event (Option)
    priority_retry,  \* its local priority_retry (0 for None)
    normal_retry,    \* its local normal_retry (0 for None)
    retry_deadline,  \* its local retry_deadline (Option)
    event,           \* its local event, between the receive and the dispatch
    pc,              \* where the loop stands: "loop", "dispatch", "halted"
    sent,            \* events sent to the queue so far
    log,             \* the handler's invocations: event, returned Action, time
    now,             \* whole seconds since the loop started
    is_online,       \* what the implementor's is_online() answers
    wake,            \* when the loop's last sleep (priority Retry) ends
    closed,          \* every sender of the loop's queue has been dropped
    warm,            \* the play the last startup found live and already submitted (0: none)
    events,          \* game signals and screenshots handled so far
    faults,          \* failed database and filesystem calls so far
    blips,           \* failed HTTP requests of intake so far
    file,            \* a path handed to the extension helpers
    stem_path,       \* the PathBuf remove_full_extension works on
    extension,       \* what full_extension returned
    applied,         \* the helpers applied to file so far
    intake_is_online,\* Intake.is_online
    intake_wake,     \* when the sleep of intake after a failed request ends
    saves,           \* the Saves task: its queue, its loop's locals, is_online, and
                     \* the pending files uploaded and removed so far
    shots,           \* the pending screenshot files uploaded and removed so far
    downstream       \* the queues of the two watchers, the HTTP server and the
                     \* notifier: the StartShutdown events sent to each

vars == <<ostate, current_play, previous_play, orx, lastEv, plays, current,
          writes, conn, istate, irx, ibuffer, play_to_intake, srx, remote, restarts,
          warm, events, faults, blips, rx, buffer, priority_event, priority_retry, normal_retry,
          retry_deadline, event, pc, sent, log, now, is_online, wake, file, stem_path,
          extension, applied, intake_is_online, intake_wake, saves, shots,
          downstream, closed>>
fsVars == <<file, stem_path, extension, applied>>
upVars == <<intake_is_online, intake_wake, saves, shots, downstream>>
chanVars == <<rx, buffer, priority_event, priority_retry, normal_retry, retry_deadline,
              event, pc, sent, log, now, is_online, wake, closed>>
appVars == <<ostate, current_play, previous_play, orx, lastEv, plays, current,
             writes, conn, istate, irx, ibuffer, play_to_intake, srx, remote,
             restarts, warm, events, faults, blips, fsVars, upVars>>

\* ------------------------------------------------------------- paths, games
\* --trim-game-prefix (a path is a sequence of components)
trim_game_prefix == <<"roms">>

\* the paths the HTTP surface may hand over
RawPaths == { <<"roms", "a.gba">>, <<"roms", "b.gba">>, <<"misc", "a.gba">> }

\* games table
games == { [path |-> <<"a.gba">>, directory |-> "dirA", label |-> "Game A"],
           [path |-> <<"b.gba">>, directory |-> "dirB", label |-> "Game B"] }

\* Path::strip_prefix: the rest of the path, or an error (<<>>)
strip_unchecked(path, prefix) == << SubSeq(path, Len(prefix) + 1, Len(path)) >>
strip_prefix(path, prefix) ==
    IF Len(prefix) <= Len(path) /\ SubSeq(path, 1, Len(prefix)) = prefix
    THEN << SubSeq(path, Len(prefix) + 1, Len(path)) >>
    ELSE << >>

trim_game_path(path) == strip_prefix(path, trim_game_prefix)

\* Database::game_for_path: the game row with that path (query_row fails on none)
game_for_path(path) ==
    IF \E g \in games : g.path = path
    THEN << CHOOSE g \in games : g.path = path >>
    ELSE << >>

\* ------------------------------------------------------------------ database
\* Database::started_playing: INSERT INTO plays (game, start_time)
started_playing_row(game) ==
    [game |-> game.path, start_time |-> "t", end_time |-> "None", intake_id |-> 0,
     submitted_start |-> "None", submitted_end |-> "None", skipped |-> FALSE]

started_playing(game) ==
    [id |-> Len(plays) + 1, game |-> game, start_time |-> "t", end_time |-> "None",
     intake_id |-> 0, submitted_start |-> "None", submitted_end |-> "None",
     skipped |-> FALSE]

\* Database::finished_playing: UPDATE plays SET end_time=? WHERE rowid=?
finished_playing_rows(play) ==
    [r \in DOMAIN plays |-> IF r = play.id THEN [plays[r] EXCEPT !.end_time = "t"]
                            ELSE plays[r]]

finished_playing(play) == [play EXCEPT !.end_time = "t"]

\* Database::initial_intake
initial_intake(play_id, intake_id, submitted_start) ==
    [r \in DOMAIN plays |->
        IF r = play_id
        THEN [plays[r] EXCEPT !.intake_id = intake_id,
                              !.submitted_start = submitted_start]
        ELSE plays[r]]

\* Database::final_intake
final_intake(play_id, submitted_end) ==
    [r \in DOMAIN plays |->
        IF r = play_id THEN [plays[r] EXCEPT !.submitted_end = submitted_end]
        ELSE plays[r]]

\* Database::full_intake
full_intake_of_current(play_id, intake_id, submitted_start, submitted_end) ==
    IF current_play # << >> /\ current_play[1].id = play_id
    THEN [r \in DOMAIN plays |->
             IF r = play_id
             THEN [plays[r] EXCEPT !.intake_id = intake_id,
                                   !.submitted_start = submitted_start,
                                   !.submitted_end = submitted_end]
             ELSE plays[r]]
    ELSE plays
full_intake(play_id, intake_id, submitted_start, submitted_end) ==
    [r \in DOMAIN plays |->
        IF r = play_id
        THEN [plays[r] EXCEPT !.intake_id = intake_id,
                              !.submitted_start = submitted_start,
                              !.submitted_end = submitted_end]
        ELSE plays[r]]

\* Database::detach_save_currently_playing: tokio::spawn of the write
detach_save_currently_playing(id) == writes' = Append(writes, id)

\* Database::load_previously_playing
load_previously_playing ==
    IF current = << >> \/ current[1] \notin DOMAIN plays THEN << >>
    ELSE LET row == plays[current[1]]
             g == game_for_path(row.game)
         IN  << [id |-> current[1], game |-> g[1], start_time |-> row.start_time,
                 end_time |-> row.end_time, intake_id |-> row.intake_id,
                 submitted_start |-> row.submitted_start,
                 submitted_end |-> row.submitted_end, skipped |-> row.skipped] >>

\* the event load_intake_backlog maps one selected row to (<<>>: none)
backlog_event_ignoring_intake(r) ==
    LET p == plays[r]
        g == game_for_path(p.game)[1]
    IN  IF p.end_time = "None"
        THEN << [type |-> "SubmitStarted", play_id |-> r, game_label |-> g.label,
                 start_time |-> p.start_time] >>
        ELSE << [type |-> "SubmitFull", play_id |-> r, game_label |-> g.label,
                 start_time |-> p.start_time, end_time |-> p.end_time] >>
backlog_event(r) ==
    LET p == plays[r]
        g == game_for_path(p.game)[1]
    IN  IF p.end_time = "None" /\ p.intake_id # 0 THEN << >>
        ELSE IF p.end_time = "None"
        THEN << [type |-> "SubmitStarted", play_id |-> r, game_label |-> g.label,
                 start_time |-> p.start_time] >>
        ELSE IF p.intake_id # 0
        THEN << [type |-> "SubmitEnded", play_id |-> r, intake_id |-> p.intake_id,
                 end_time |-> p.end_time] >>
        ELSE << [type |-> "SubmitFull", play_id |-> r, game_label |-> g.label,
                 start_time |-> p.start_time, end_time |-> p.end_time] >>

RECURSIVE backlog_from(_)
backlog_from(r) ==
    IF r > Len(plays) THEN << >>
    ELSE (IF plays[r].submitted_end = "None" /\ ~plays[r].skipped
          THEN backlog_event(r) ELSE << >>) \o backlog_from(r + 1)

\* Database::load_intake_backlog
load_intake_backlog == backlog_from(1)

\* ------------------------------------------------------------- orchestrator
\* what the handler of one event notified (Notifier::notify_error / notify_success)
Handled(ev, path, errors, success) ==
    lastEv' = [ev |-> ev, path |-> path, errors |-> errors, success |-> success]

\* one more external event is taken off the orchestrator's queue
External == events < MaxEvents /\ events' = events + 1

\* a database or filesystem call fails (failed) or not
Fault(failed) ==
    /\ failed => faults < MaxFaults
    /\ faults' = IF failed THEN faults + 1 ELSE faults

\* Orchestrator::set_current_play, on the value `cur` self.current_play holds
\* when it is called
set_current_play_keeping_previous(cur, play) ==
    /\ previous_play' = IF previous_play # << >> THEN previous_play ELSE cur
    /\ current_play' = play
    /\ detach_save_currently_playing(IF play = << >> THEN 0 ELSE play[1].id)
set_current_play(cur, play) ==
    /\ previous_play' = IF cur # << >> THEN cur ELSE previous_play
    /\ current_play' = play
    /\ detach_save_currently_playing(IF play = << >> THEN 0 ELSE play[1].id)

\* intake_tx.send(event)
send_intake(msg) == irx' = Append(irx, msg)

\* Event::GameStarted(path).  fail names the call that fails, if any:
\* remove_file(latest_screenshot) (other than NotFound), game_for_path,
\* started_playing, or one of the three create_dir_all.
GameStarted(path, fail) ==
    /\ ostate = "running"
    /\ External
    /\ LET had == current_play # << >>
           trimmed == trim_game_path(path)
           game == IF trimmed = << >> THEN << >> ELSE game_for_path(trimmed[1])
       IN  IF trimmed = << >>
           THEN /\ fail = "none"
                /\ Handled("GameStarted", path, TRUE, FALSE)
                /\ UNCHANGED <<current_play, previous_play, plays, writes, irx, faults>>
           ELSE /\ Fault(fail # "none")
                /\ IF fail \in {"remove", "game", "start"} \/ game = << >>
                   THEN /\ Handled("GameStarted", path, TRUE, FALSE)
                        /\ UNCHANGED <<current_play, previous_play, plays, writes, irx>>
                   ELSE LET play == started_playing(game[1]) IN
                        /\ plays' = Append(plays, started_playing_row(game[1]))
                        /\ set_current_play(current_play, << play >>)
                        /\ send_intake([type |-> "SubmitStarted", play_id |-> play.id,
                                        game_label |-> play.game.label,
                                        start_time |-> play.start_time])
                        /\ Handled("GameStarted", path, had \/ fail = "dirs",
                                   fail # "dirs")
    /\ UNCHANGED <<ostate, orx, current, conn, istate, ibuffer, play_to_intake, srx,
                   remote, restarts, warm, chanVars, fsVars, upVars, blips>>

\* Event::GameEnded(path).  db_ok: finished_playing did not fail (its error
\* leaves Orchestrator::start through `?`)
GameEnded(path, db_ok) ==
    /\ ostate = "running"
    /\ External
    /\ LET trimmed == trim_game_path(path) IN
       IF trimmed = << >>
       THEN /\ db_ok
            /\ Handled("GameEnded", path, TRUE, FALSE)
            /\ UNCHANGED <<ostate, current_play, previous_play, plays, writes, irx,
                           faults>>
       ELSE IF current_play = << >> \/ current_play[1].game.path # trimmed[1]
       THEN \* self.current_play.take(), the error, then set_current_play(None)
            /\ db_ok
            /\ set_current_play(<< >>, << >>)
            /\ Handled("GameEnded", path, TRUE, FALSE)
            /\ UNCHANGED <<ostate, plays, irx, faults>>
       ELSE IF ~db_ok
       THEN /\ Fault(TRUE)
            /\ ostate' = "failed"
            /\ current_play' = << >>
            /\ Handled("GameEnded", path, FALSE, FALSE)
            /\ UNCHANGED <<previous_play, plays, writes, irx>>
       ELSE LET play == finished_playing(current_play[1]) IN
            /\ plays' = finished_playing_rows(current_play[1])
            /\ send_intake([type |-> "SubmitFull", play_id |-> play.id,
                            game_label |-> play.game.label,
                            start_time |-> play.start_time,
                            end_time |-> play.end_time])
            /\ set_current_play(<< play >>, << >>)
            /\ Handled("GameEnded", path, FALSE, TRUE)
            /\ UNCHANGED <<ostate, faults>>
    /\ UNCHANGED <<orx, current, conn, istate, ibuffer, play_to_intake, srx, remote,
                   restarts, warm, chanVars, fsVars, upVars, blips>>

\* Orchestrator::playing
playing_previous_first == IF previous_play # << >> THEN previous_play ELSE current_play
playing_current_only == current_play
playing == IF current_play # << >> THEN current_play ELSE previous_play

\* Event::ScreenshotCreated(path).  fail names the filesystem call that fails, if
\* any: rename, remove_file(latest_screenshot) (other than NotFound), hard_link.
\* self.extra_directory
extra_directory == <<"pending_screenshots", "extra">>

\* destination = extra_directory joined with path.file_name()
extra_destination_numbered(path) ==
    [dir |-> extra_directory, name |-> "now_milli", ext |-> path.ext]
extra_destination(path) ==
    [dir |-> extra_directory, name |-> path.name, ext |-> path.ext]

ScreenshotCreated(path, fail) ==
    /\ ostate = "running"
    /\ External
    /\ Fault(fail # "none")
    /\ IF playing # << >>
       THEN LET destination == [dir |-> <<"pending_screenshots",
                                          playing[1].game.directory>>,
                                name |-> "now_milli", ext |-> path.ext]
            IN  /\ IF fail # "none"
                   THEN /\ Handled("ScreenshotCreated", path, TRUE, FALSE)
                        /\ UNCHANGED srx
                   ELSE /\ srx' = Append(srx, [type |-> "UploadScreenshot",
                                               path |-> destination,
                                               directory |-> playing[1].game.directory])
                        /\ Handled("ScreenshotCreated", path, FALSE, FALSE)
                /\ UNCHANGED shots
       ELSE LET destination == extra_destination(path)
            IN  /\ fail \in {"none", "rename"}
                /\ IF fail # "none"
                   THEN UNCHANGED <<srx, shots>>
                   ELSE /\ shots' = [shots EXCEPT !.extra = @ \cup {destination}]
                        /\ srx' = Append(srx, [type |-> "UploadExtra",
                                               path |-> destination])
                /\ Handled("ScreenshotCreated", path, TRUE, FALSE)
    /\ UNCHANGED <<ostate, current_play, previous_play, orx, plays, current, writes,
                   conn, istate, irx, ibuffer, play_to_intake, remote, restarts, warm,
                   chanVars, fsVars, intake_is_online, intake_wake, saves, downstream,
                   blips>>

\* screenshots that arrive while no game is played, in the order of their file
\* names
StrayPaths == << [dir |-> <<"snap">>, name |-> "shot1", ext |-> "png"],
                [dir |-> <<"snap">>, name |-> "shot2", ext |-> "png"] >>

\* recursive_files_in(extra_directory, None): the files of the directory, sorted
\* by file name
IsIn(files, path) == extra_destination(path) \in files
recursive_files_in(files) == SelectSeq(StrayPaths, LAMBDA path : IsIn(files, path))

\* the events the scan sends for the files it finds
RECURSIVE upload_extra(_)
upload_extra(paths) ==
    IF paths = << >> THEN << >>
    ELSE << [type |-> "UploadExtra", path |-> extra_destination(Head(paths))] >>
         \o upload_extra(Tail(paths))

\* OrchestratorPre::upload_extra_screenshots: the task spawned at startup runs,
\* at whatever time the runtime gives it: UploadExtra for every file that
\* extra_directory holds then
UploadExtraScreenshots ==
    /\ shots.scan = "spawned"
    /\ srx' = srx \o upload_extra(recursive_files_in(shots.extra))
    /\ shots' = [shots EXCEPT !.scan = "done"]
    /\ UNCHANGED <<ostate, current_play, previous_play, orx, lastEv, plays, current,
                   writes, conn, istate, irx, ibuffer, play_to_intake, remote, restarts,
                   warm, events, faults, blips, chanVars, fsVars, intake_is_online,
                   intake_wake, saves, downstream>>

\* Event::IntakeStarted { play_id, intake_id, submitted_start }
IntakeStarted(db_ok) ==
    /\ ostate = "running"
    /\ orx # << >>
    /\ Head(orx).type = "IntakeStarted"
    /\ Fault(~db_ok)
    /\ LET e == Head(orx) IN
       /\ current_play' =
            IF current_play # << >> /\ current_play[1].id = e.play_id
            THEN << [current_play[1] EXCEPT !.intake_id = e.intake_id,
                                            !.submitted_start = e.submitted_start] >>
            ELSE current_play
       /\ plays' = IF db_ok
                   THEN initial_intake(e.play_id, e.intake_id, e.submitted_start)
                   ELSE plays
       /\ Handled("IntakeStarted", << >>, ~db_ok, db_ok)
    /\ orx' = Tail(orx)
    /\ UNCHANGED <<ostate, previous_play, current, writes, conn, istate, irx,
                   ibuffer, play_to_intake, srx, remote, restarts, warm, chanVars, fsVars, upVars, blips, events>>

\* Event::IntakeEnded { play_id, submitted_end }
IntakeEnded(db_ok) ==
    /\ ostate = "running"
    /\ orx # << >>
    /\ Head(orx).type = "IntakeEnded"
    /\ Fault(~db_ok)
    /\ LET e == Head(orx) IN
       /\ current_play' =
            IF current_play # << >> /\ current_play[1].id = e.play_id
            THEN << [current_play[1] EXCEPT !.submitted_end = e.submitted_end] >>
            ELSE current_play
       /\ plays' = IF db_ok THEN final_intake(e.play_id, e.submitted_end) ELSE plays
       /\ Handled("IntakeEnded", << >>, ~db_ok, db_ok)
    /\ orx' = Tail(orx)
    /\ UNCHANGED <<ostate, previous_play, current, writes, conn, istate, irx,
                   ibuffer, play_to_intake, srx, remote, restarts, warm, chanVars, fsVars, upVars, blips, events>>

\* Event::IntakeFull { play_id, intake_id, submitted_start, submitted_end }
IntakeFull(db_ok) ==
    /\ ostate = "running"
    /\ orx # << >>
    /\ Head(orx).type = "IntakeFull"
    /\ Fault(~db_ok)
    /\ LET e == Head(orx) IN
       /\ current_play' =
            IF current_play # << >> /\ current_play[1].id = e.play_id
            THEN << [current_play[1] EXCEPT !.intake_id = e.intake_id,
                                            !.submitted_start = e.submitted_start,
                                            !.submitted_end = e.submitted_end] >>
            ELSE current_play
       /\ plays' = IF db_ok
                   THEN full_intake(e.play_id, e.intake_id, e.submitted_start,
                                    e.submitted_end)
                   ELSE plays
       /\ Handled("IntakeFull", << >>, ~db_ok, db_ok)
    /\ orx' = Tail(orx)
    /\ UNCHANGED <<ostate, previous_play, current, writes, conn, istate, irx,
                   ibuffer, play_to_intake, srx, remote, restarts, warm, chanVars, fsVars, upVars, blips, events>>

\* the queue q with StartShutdown sent to it
shutdown_sent_twice(q) == Append(Append(q, [type |-> "StartShutdown"]),
                                 [type |-> "StartShutdown"])
shutdown_sent(q) == Append(q, [type |-> "StartShutdown"])

\* Event::StartShutdown: the fan-out (a send to a task that has ended fails),
\* then break
StartShutdown ==
    /\ ostate = "running"
    /\ irx' = shutdown_sent(irx)
    /\ srx' = shutdown_sent(srx)
    /\ rx' = IF pc = "halted" THEN rx
             ELSE Append(rx, [id |-> 0, high |-> TRUE, online |-> "halt", at |-> now])
    /\ saves' = IF saves.state = "running"
                THEN [saves EXCEPT !.rx = shutdown_sent(@)]
                ELSE saves
    /\ downstream' = [q \in DOMAIN downstream |-> shutdown_sent(downstream[q])]
    /\ ostate' = "halted"
    /\ Handled("StartShutdown", << >>, FALSE, FALSE)
    /\ UNCHANGED <<current_play, previous_play, orx, plays, current, writes, conn,
                   istate, ibuffer, play_to_intake, remote, restarts, warm, buffer,
                   priority_event, priority_retry, normal_retry, retry_deadline, event,
                   pc, sent, log, now, is_online, wake, fsVars, intake_is_online,
                   intake_wake, shots, blips, events, faults, closed>>

\* ------------------------------------------------- detached singleton writes
\* save_currently_playing's statements on the rows of the table
keep_rows(rows) == rows
delete_from_current(rows) == << >>
insert_into_current(rows, id) == Append(rows, id)

\* the sequence s without its i-th element
RemoveAt(s, i) == SubSeq(s, 1, i - 1) \o SubSeq(s, i + 1, Len(s))

\* save_currently_playing, first statement: one spawned task (any of them: tokio
\* orders spawned tasks in no particular way) gets the connection thread, which
\* runs its closure alone; DELETE FROM current.  ok: the statement did not fail.
SaveDelete(i, ok) ==
    /\ conn = << >>
    /\ i \in DOMAIN writes
    /\ Fault(~ok)
    /\ writes' = RemoveAt(writes, i)
    /\ IF ok
       THEN /\ current' = delete_from_current(current)
            /\ conn' = << writes[i] >>
       ELSE UNCHANGED <<current, conn>>
    /\ UNCHANGED <<ostate, current_play, previous_play, orx, lastEv, plays, istate,
                   irx, ibuffer, play_to_intake, srx, remote, restarts, warm, chanVars, fsVars, upVars, blips, events>>

\* save_currently_playing, second statement: INSERT INTO current (play) VALUES (?)
\* when an id was given, and the closure ends
SaveInsert(ok) ==
    /\ conn # << >>
    /\ ~ok => conn[1] # 0
    /\ Fault(~ok)
    /\ current' = IF conn[1] # 0 /\ ok THEN insert_into_current(current, conn[1])
                  ELSE current
    /\ conn' = << >>
    /\ UNCHANGED <<ostate, current_play, previous_play, orx, lastEv, plays, writes,
                   istate, irx, ibuffer, play_to_intake, srx, remote, restarts, warm, chanVars, fsVars, upVars, blips,
                   events>>

\* --------------------------------------------------------------------- intake
\* orchestrator_tx.send(msg): an error once the orchestrator's receiver is gone
send_orchestrator(msg) == orx' = IF ostate = "running" THEN Append(orx, msg) ELSE orx

\* Intake::create_intake -> the remote's new row (POST)
create_intake(play_id, game_label, start_time, end_time) ==
    Append(remote, [play |-> play_id, game |-> game_label, startTime |-> start_time,
                    endTime |-> end_time, patches |-> 0])

\* Intake::finish_intake -> the remote's row updated (PATCH)
finish_intake(intake_id, end_time) ==
    [r \in DOMAIN remote |->
        IF r = intake_id
        THEN [remote[r] EXCEPT !.endTime = end_time, !.patches = @ + 1]
        ELSE remote[r]]

\* HashMap::insert / HashMap::remove
map_insert_forgotten(m, k, v) == m
map_insert(m, k, v) == [x \in DOMAIN m \cup {k} |-> IF x = k THEN v ELSE m[x]]
map_remove_skipped(m, k) == m
map_remove(m, k) == [x \in DOMAIN m \ {k} |-> m[x]]

\* self.buffer.push_front(event) after a failed request
failed_event_dropped(q, e) == q
buffer_push_front(q, e) == << e >> \o q

\* SubmitFull: self.play_to_intake.get(play_id) is Some
never_submitted(m, play_id) == FALSE
start_submitted(m, play_id) == play_id \in DOMAIN m

\* what an uploader does with ForceSync: the event is high-priority, the handler
\* sets is_online and returns this action
force_sync == [high |-> TRUE, is_online |-> TRUE, action |-> "ResetTimeout"]

\* Intake::start, an iteration that takes an event off the channel (recv, or
\* try_recv when the buffer holds work)
IntakeRecv ==
    /\ istate = "running"
    /\ now >= intake_wake
    /\ irx # << >>
    /\ irx' = Tail(irx)
    /\ IF Head(irx).type = "StartShutdown"
       THEN istate' = "halted" /\ UNCHANGED <<ibuffer, intake_is_online>>
       ELSE IF Head(irx).type = "IsOnline"
       THEN intake_is_online' = Head(irx).online /\ UNCHANGED <<istate, ibuffer>>
       ELSE IF Head(irx).type = "ForceSync"
       THEN intake_is_online' = force_sync.is_online /\ UNCHANGED <<istate, ibuffer>>
       ELSE /\ ibuffer' = Append(ibuffer, Head(irx))
            /\ UNCHANGED <<istate, intake_is_online>>
    /\ UNCHANGED <<ostate, current_play, previous_play, orx, lastEv, plays, current,
                   writes, conn, play_to_intake, srx, remote, restarts, warm, chanVars,
                   fsVars, intake_wake, saves, shots, downstream, blips, events,
                   faults>>

\* tokio::time::sleep(Duration::from_secs(5)) begun at time t: when it ends
slept(t) == t + 5

\* Intake::start, an iteration that finds the channel empty and handles
\* buffer.pop_front().  ok: the HTTP request succeeded
IntakeHandle(ok) ==
    /\ istate = "running"
    /\ now >= intake_wake
    /\ irx = << >>
    /\ ibuffer # << >>
    /\ ok => blips' = blips
    /\ LET e == Head(ibuffer) IN
       IF e.type = "PreviousGame"
       THEN /\ ok
            /\ play_to_intake' = map_insert(play_to_intake, e.play_id, e.intake_id)
            /\ ibuffer' = Tail(ibuffer)
            /\ UNCHANGED <<orx, remote>>
       ELSE IF ~ok
       THEN \* buffer.push_front(event); sleep; continue
            /\ blips < MaxBlips
            /\ blips' = blips + 1
            /\ ibuffer' = buffer_push_front(Tail(ibuffer), e)
            /\ UNCHANGED <<play_to_intake, orx, remote>>
       ELSE IF e.type = "SubmitStarted"
       THEN /\ remote' = create_intake(e.play_id, e.game_label, e.start_time, "None")
            /\ play_to_intake' = map_insert(play_to_intake, e.play_id, Len(remote'))
            /\ send_orchestrator([type |-> "IntakeStarted", play_id |-> e.play_id,
                                  intake_id |-> Len(remote'),
                                  submitted_start |-> "t"])
            /\ ibuffer' = Tail(ibuffer)
       ELSE IF e.type = "SubmitEnded"
       THEN /\ remote' = finish_intake(e.intake_id, e.end_time)
            /\ play_to_intake' = map_remove(play_to_intake, e.play_id)
            /\ send_orchestrator([type |-> "IntakeEnded", play_id |-> e.play_id,
                                  submitted_end |-> "t"])
            /\ ibuffer' = Tail(ibuffer)
       ELSE IF start_submitted(play_to_intake, e.play_id)
       THEN \* SubmitFull, start already submitted
            /\ remote' = finish_intake(play_to_intake[e.play_id], e.end_time)
            /\ play_to_intake' = map_remove(play_to_intake, e.play_id)
            /\ send_orchestrator([type |-> "IntakeEnded", play_id |-> e.play_id,
                                  submitted_end |-> "t"])
            /\ ibuffer' = Tail(ibuffer)
       ELSE \* SubmitFull, nothing submitted yet
            /\ remote' = create_intake(e.play_id, e.game_label, e.start_time,
                                       e.end_time)
            /\ send_orchestrator([type |-> "IntakeFull", play_id |-> e.play_id,
                                  intake_id |-> Len(remote'),
                                  submitted_start |-> "t", submitted_end |-> "t"])
            /\ ibuffer' = Tail(ibuffer)
            /\ UNCHANGED play_to_intake
    /\ intake_wake' = IF ok \/ Head(ibuffer).type = "PreviousGame" THEN intake_wake
                      ELSE slept(now)
    /\ UNCHANGED <<ostate, current_play, previous_play, lastEv, plays, current,
                   writes, conn, istate, irx, srx, restarts, warm, chanVars, fsVars,
                   intake_is_online, saves, shots, downstream, events, faults>>

\* -------------------------------------------------------------------- restart
\* OrchestratorPre::load_backlog: the events put on the intake queue
backlog_without_previous(previous) == load_intake_backlog
previous_after_backlog(previous) ==
    load_intake_backlog \o
    (IF previous # << >> /\ previous[1].end_time = "None" /\ previous[1].intake_id # 0
     THEN << [type |-> "PreviousGame", play_id |-> previous[1].id,
              intake_id |-> previous[1].intake_id] >>
     ELSE << >>)
load_backlog_events(previous) ==
    (IF previous # << >> /\ previous[1].end_time = "None" /\ previous[1].intake_id # 0
     THEN << [type |-> "PreviousGame", play_id |-> previous[1].id,
              intake_id |-> previous[1].intake_id] >>
     ELSE << >>) \o load_intake_backlog

\* The process ends (every task has left its loop after StartShutdown, or the
\* orchestrator returned an error) and is started again on the same database:
\* queues, in-memory state and tasks not yet run are gone; OrchestratorPre::start
\* and IntakePre::start run.
Restart ==
    /\ \/ ostate = "halted" /\ istate = "halted"
       \/ ostate = "failed"
    /\ restarts < MaxRestarts
    /\ restarts' = restarts + 1
    /\ LET previous == load_previously_playing IN
       /\ current_play' = previous
       /\ irx' = load_backlog_events(previous)
       /\ warm' = IF previous # << >> /\ previous[1].end_time = "None"
                      /\ previous[1].intake_id # 0
                   THEN previous[1].id ELSE 0
    /\ previous_play' = << >>
    /\ orx' = << >>
    /\ ibuffer' = << >>
    /\ play_to_intake' = << >>
    /\ srx' = << >>
    /\ writes' = << >>
    /\ conn' = << >>
    /\ ostate' = "running"
    /\ istate' = "running"
    /\ Handled("Startup", << >>, FALSE, FALSE)
    /\ intake_is_online' = TRUE
    /\ intake_wake' = 0
    /\ downstream' = [screenshot_watcher |-> << >>, save_watcher |-> << >>,
                      server |-> << >>, notify |-> << >>]
    /\ saves' = [saves EXCEPT !.state = "running", !.rx = << >>, !.buffer = << >>,
                              !.is_online = TRUE, !.retry_deadline = "None",
                              !.digest_cache = << >>]
    /\ rx' = << >>
    /\ buffer' = << >>
    /\ priority_event' = << >>
    /\ priority_retry' = 0
    /\ normal_retry' = 0
    /\ retry_deadline' = << >>
    /\ event' = << >>
    /\ pc' = "loop"
    /\ is_online' = TRUE
    /\ wake' = 0
    /\ shots' = [shots EXCEPT !.scan = "spawned"]
    /\ closed' = FALSE
    /\ UNCHANGED <<plays, current, remote, events, faults, sent, log, now, fsVars,
                   blips>>

\* ------------------------------------------------------ PriorityRetryChannel
\* Events of the queue are [id, high, online, at]: id numbers them in sending
\* order, high is what is_high_priority answers for them, online is "on" or
\* "off" for the implementor's IsOnline(true) and IsOnline(false) and "keep" for
\* any other event, at is when they were sent.  The handler is the trait's: what
\* it returns is any Action.  Time is in whole seconds since the loop started
\* (start.elapsed().as_secs() is now); the loop's own steps take no time.
Actions == {"Continue", "ResetTimeout", "Halt", "Retry"}

\* let online_secs = 5; let offline_secs = 30;
online_secs == 5
offline_secs == 30
\* if r > 5 { 5 } else { r }
retry_cap == 5

\* the step of the clock while nothing is due
Quantum == online_secs

\* std::cmp::min
Min(a, b) == IF a <= b THEN a ELSE b

\* the retry counter after one more Retry (None -> Some(1), Some(r) -> Some(r + 1))
next_retry(r) == r + 1

\* the number of retries the wait is computed from
capped_retries(r) == IF r > retry_cap THEN retry_cap ELSE r

\* the wait before a retry, for `retries` retries and a base of `secs`:
\* min(start.elapsed().as_secs(), retries * secs)
unclamped_wait(retries, secs, elapsed) == retries * secs
retry_wait(retries, secs, elapsed) == Min(elapsed, retries * secs)

\* the deadline timeout_at is given
offline_deadline_always(deadlines, online) == deadlines.offline
chosen_deadline(deadlines, online) ==
    IF online THEN deadlines.online ELSE deadlines.offline

\* self.is_high_priority(&event), the test that decides between the handler and
\* the buffer
high_only_when_idle(e) == e.high /\ buffer = << >>
is_high_priority(e) == e.high

\* VecDeque::push_back, VecDeque::push_front
push_back(buf, e) == Append(buf, e)
requeue_at_back(buf, e) == Append(buf, e)
push_front(buf, e) == << e >> \o buf

\* where the loop is after the handler returned action: Action::Halt => break
after_never_breaks(action) == "loop"
after(action) == IF action = "Halt" THEN "halted" ELSE "loop"

\* the two deadlines stored when a normal event is to be retried, at elapsed
\* seconds, for the retries-th time: (now + online_secs, now + offline_secs)
online_deadline_twice(retries, elapsed) ==
    [online |-> elapsed + retry_wait(capped_retries(retries), online_secs, elapsed),
     offline |-> elapsed + retry_wait(capped_retries(retries), online_secs, elapsed)]
deadlines(retries, elapsed) ==
    [online |-> elapsed + retry_wait(capped_retries(retries), online_secs, elapsed),
     offline |-> elapsed + retry_wait(capped_retries(retries), offline_secs, elapsed)]

\* the normal retry counter r after the handler returned action on a
\* high-priority event: normal_retry = None on ResetTimeout
reset_ignored(action, r) == r
reset_normal(action, r) == IF action = "ResetTimeout" THEN 0 ELSE r

\* the priority slot after the handler returned action on the high-priority
\* event e just received: priority_event = Some(event) on Retry
never_retried(e, action) == << >>
retried(e, action) == IF action = "Retry" THEN e ELSE << >>

\* Retry answers of the handler so far
Retried == Cardinality({i \in DOMAIN log : log[i].action = "Retry"})

\* self.handle(&event).await returning action; the implementor's IsOnline sets
\* its is_online and returns Continue, its StartShutdown returns Halt ("force"
\* marks a ForceSync, "halt" a StartShutdown)
handle(e, action) ==
    /\ action = "Retry" => Retried < MaxRetry
    /\ e.online \in {"on", "off"} => action = "Continue"
    /\ e.online = "force" => action = force_sync.action
    /\ e.online = "halt" => action = "Halt"
    /\ is_online' = IF e.online \in {"keep", "halt"} THEN is_online
                    ELSE IF e.online = "force" THEN force_sync.is_online
                    ELSE e.online = "on"
    /\ log' = Append(log, [id |-> e.id, high |-> e.high, online |-> e.online,
                           action |-> action, at |-> now])

\* a sender puts an event on the queue; the queue is gone once the loop has ended
ChanSend(high) ==
    /\ ~closed
    /\ sent < MaxSent
    /\ sent' = sent + 1
    /\ rx' = IF pc = "halted" THEN rx
             ELSE Append(rx, [id |-> sent + 1, high |-> high, online |-> "keep",
                              at |-> now])
    /\ UNCHANGED <<buffer, priority_event, priority_retry, normal_retry,
                   retry_deadline, event, pc, log, now, is_online, wake, appVars, closed>>

\* the implementor is sent IsOnline(online)
ChanSendIsOnline(online) ==
    /\ pc # "halted"
    /\ ~closed
    /\ sent < MaxSent
    /\ sent' = sent + 1
    /\ rx' = Append(rx, [id |-> sent + 1, high |-> TRUE,
                         online |-> IF online THEN "on" ELSE "off", at |-> now])
    /\ UNCHANGED <<buffer, priority_event, priority_retry, normal_retry,
                   retry_deadline, event, pc, log, now, is_online, wake, appVars, closed>>

\* top of the loop with a priority event waiting to be retried, its sleep over
ChanPriorityRetry(action) ==
    /\ pc = "loop"
    /\ priority_event # << >>
    /\ now >= wake
    /\ handle(priority_event[1], action)
    /\ priority_retry' = IF action = "Retry" THEN next_retry(priority_retry)
                         ELSE IF action = "Halt" THEN priority_retry ELSE 0
    /\ normal_retry' = reset_normal(action, normal_retry)
    /\ priority_event' = IF action \in {"Retry", "Halt"} THEN priority_event ELSE << >>
    /\ wake' = IF action = "Retry"
               THEN now + retry_wait(capped_retries(priority_retry'),
                                     IF is_online' THEN online_secs ELSE offline_secs,
                                     now)
               ELSE wake
    /\ pc' = after(action)
    /\ UNCHANGED <<rx, buffer, retry_deadline, event, sent, now, appVars, closed>>

\* the last sender of the queue is dropped
DropSenders ==
    /\ pc # "halted"
    /\ ~closed
    /\ closed' = TRUE
    /\ UNCHANGED <<rx, buffer, priority_event, priority_retry, normal_retry,
                   retry_deadline, event, pc, sent, log, now, is_online, wake, appVars>>

\* the receive: rx.recv() on an empty buffer, timeout_at(deadline, rx.recv())
\* while a deadline is set, rx.try_recv() otherwise.  On a queue that is closed
\* and empty recv() is ready with None at once, also inside timeout_at, which
\* polls it first (Ok(None): the deadline stays), and try_recv() answers
\* Disconnected
ChanRecv ==
    /\ pc = "loop"
    /\ priority_event = << >>
    /\ buffer = << >> => rx # << >> \/ closed
    /\ IF rx # << >>
       THEN /\ event' = << Head(rx) >>
            /\ rx' = Tail(rx)
            /\ pc' = "dispatch"
            /\ UNCHANGED retry_deadline
       ELSE IF closed
       THEN /\ event' = << >>
            /\ pc' = IF buffer # << >> /\ retry_deadline = << >> THEN "halted"
                     ELSE "dispatch"
            /\ UNCHANGED <<rx, retry_deadline>>
       ELSE /\ retry_deadline # << >>
                 => now >= chosen_deadline(retry_deadline[1], is_online)
            /\ event' = << >>
            /\ retry_deadline' = << >>
            /\ pc' = "dispatch"
            /\ UNCHANGED rx
    /\ UNCHANGED <<buffer, priority_event, priority_retry, normal_retry, sent, log,
                   now, is_online, wake, appVars, closed>>

\* what the loop does with the outcome of the receive, the handler returning
\* action
dispatch(action) ==
    /\ pc = "dispatch"
    /\ event' = << >>
    /\ IF event # << >> /\ is_high_priority(event[1])
       THEN /\ handle(event[1], action)
            /\ priority_retry' = IF action = "Retry" THEN next_retry(priority_retry)
                                 ELSE IF action = "Halt" THEN priority_retry ELSE 0
            /\ normal_retry' = reset_normal(action, normal_retry)
            /\ priority_event' = retried(event, action)
            /\ wake' = IF action = "Retry"
                       THEN now + retry_wait(capped_retries(priority_retry'),
                                             IF is_online' THEN online_secs
                                             ELSE offline_secs, now)
                       ELSE wake
            /\ pc' = after(action)
            /\ UNCHANGED <<buffer, retry_deadline>>
       ELSE IF event # << >>
       THEN /\ action = "Continue"
            /\ buffer' = push_back(buffer, event[1])
            /\ pc' = "loop"
            /\ UNCHANGED <<priority_event, priority_retry, normal_retry,
                           retry_deadline, log, is_online, wake>>
       ELSE IF buffer # << >>
       THEN /\ handle(Head(buffer), action)
            /\ buffer' = IF action = "Retry" THEN push_front(Tail(buffer), Head(buffer))
                         ELSE Tail(buffer)
            /\ normal_retry' = IF action = "Retry" THEN next_retry(normal_retry)
                               ELSE IF action = "Halt" THEN normal_retry ELSE 0
            /\ retry_deadline' = IF action = "Retry"
                                 THEN << deadlines(normal_retry', now) >>
                                 ELSE retry_deadline
            /\ pc' = after(action)
            /\ UNCHANGED <<priority_event, priority_retry, wake>>
       ELSE /\ action = "Continue"
            /\ pc' = "loop"
            /\ UNCHANGED <<buffer, priority_event, priority_retry, normal_retry,
                           retry_deadline, log, is_online, wake>>
    /\ UNCHANGED <<rx, sent, now, closed>>

\* the dispatch of a loop whose handler touches nothing but its own is_online
ChanDispatch(action) == dispatch(action) /\ UNCHANGED appVars

\* the loop can take a step now
LoopEnabled ==
    \/ pc = "dispatch"
    \/ pc = "loop" /\ priority_event # << >> /\ now >= wake
    \/ /\ pc = "loop"
       /\ priority_event = << >>
       /\ \/ rx # << >>
          \/ closed
          \/ /\ buffer # << >>
             /\ retry_deadline # << >>
                   => now >= chosen_deadline(retry_deadline[1], is_online)

\* intake can take a step now
IntakeEnabled ==
    /\ istate = "running"
    /\ now >= intake_wake
    /\ irx # << >> \/ ibuffer # << >>

\* the time the loop is waiting for: the end of its sleep, or the deadline of its
\* timeout_at; MaxTime when it waits for an event only
NextTimer ==
    IF priority_event # << >> THEN wake
    ELSE IF buffer # << >> /\ retry_deadline # << >>
    THEN chosen_deadline(retry_deadline[1], is_online)
    ELSE MaxTime

\* time passes while the loop waits or intake sleeps, up to the time the loop is
\* waiting for
Tick ==
    /\ pc # "halted" \/ (istate = "running" /\ now < intake_wake)
    /\ ~LoopEnabled
    /\ ~IntakeEnabled
    /\ now < MaxTime
    /\ now' = Min(Min(now + Quantum, NextTimer), MaxTime)
    /\ UNCHANGED <<rx, buffer, priority_event, priority_retry, normal_retry,
                   retry_deadline, event, pc, sent, log, is_online, wake, closed,
                   appVars>>

\* ------------------------------------------------------------------- uploaders
\* how an upload request ends: 2xx, another status, a timeout or connect error,
\* any other error (the file cannot be opened, ...)
Outcomes == {"ok", "status", "network", "other"}

\* Online::observed_online / observed_error after a request that ended with
\* outcome, in an uploader whose is_online() is own: the orchestrator's queue q
\* with IsOnline(seen) sent if seen differs from own
observed(q, own, outcome) ==
    LET seen == IF outcome \in {"ok", "status"} THEN << TRUE >>
                ELSE IF outcome = "network" THEN << FALSE >> ELSE << >>
    IN  IF seen = << >> THEN q
        ELSE IF seen[1] = own \/ ostate # "running" THEN q
        ELSE Append(q, [type |-> "IsOnline", online |-> seen[1]])

\* what Screenshots::handle returns for an upload event: Retry when the upload
\* failed, Continue otherwise, the remove_file having worked or not
upload_action(outcome, remove_ok) == IF outcome = "ok" THEN "Continue" ELSE "Retry"

\* the pending files uploaded and removed, after an upload of file id that ended
\* with outcome and, if it worked, a remove_file that worked or not
removed_anyway(files, id, outcome, remove_ok) ==
    [uploaded |-> IF outcome = "ok" THEN files.uploaded \cup {id} ELSE files.uploaded,
     removed |-> files.removed \cup {id}]
uploaded_then_removed(files, id, outcome, remove_ok) ==
    [uploaded |-> IF outcome = "ok" THEN files.uploaded \cup {id} ELSE files.uploaded,
     removed |-> IF outcome = "ok" /\ remove_ok THEN files.removed \cup {id}
                 ELSE files.removed]

\* the queue q of intake or saves with IsOnline(online) sent to it
not_forwarded(q, online) == q
forwarded(q, online) == Append(q, [type |-> "IsOnline", online |-> online])

\* POST /online, POST /offline
ServerIsOnline(online) ==
    /\ ostate = "running"
    /\ events + Len(orx) < MaxEvents
    /\ orx' = Append(orx, [type |-> "IsOnline", online |-> online])
    /\ UNCHANGED <<ostate, current_play, previous_play, lastEv, plays, current, writes,
                   conn, istate, irx, ibuffer, play_to_intake, srx, remote, restarts,
                   warm, events, faults, blips, chanVars, fsVars, upVars>>

\* Event::IsOnline(online), handled by the orchestrator: sent on to intake,
\* screenshots and saves (a send to a task that has ended fails)
IsOnline ==
    /\ ostate = "running"
    /\ orx # << >>
    /\ Head(orx).type = "IsOnline"
    /\ External
    /\ sent < MaxSent
    /\ orx' = Tail(orx)
    /\ irx' = IF istate = "running" THEN forwarded(irx, Head(orx).online) ELSE irx
    /\ rx' = IF pc = "halted" THEN rx
             ELSE Append(rx, [id |-> sent + 1, high |-> TRUE,
                              online |-> IF Head(orx).online THEN "on" ELSE "off",
                              at |-> now])
    /\ sent' = sent + 1
    /\ saves' = IF saves.state = "running"
                THEN [saves EXCEPT !.rx = forwarded(@, Head(orx).online)]
                ELSE saves
    /\ lastEv' = [ev |-> "IsOnline", path |-> << >>, errors |-> FALSE,
                  success |-> FALSE, online |-> Head(orx).online]
    /\ UNCHANGED <<ostate, current_play, previous_play, plays, current, writes, conn,
                   istate, ibuffer, play_to_intake, srx, remote, restarts, warm, faults,
                   blips, buffer, priority_event, priority_retry, normal_retry,
                   retry_deadline, event, pc, log, now, is_online, wake, fsVars,
                   intake_is_online, intake_wake, shots, downstream, closed>>

\* POST /sync
ServerForceSync ==
    /\ ostate = "running"
    /\ events + Len(orx) < MaxEvents
    /\ orx' = Append(orx, [type |-> "ForceSync"])
    /\ UNCHANGED <<ostate, current_play, previous_play, lastEv, plays, current, writes,
                   conn, istate, irx, ibuffer, play_to_intake, srx, remote, restarts,
                   warm, events, faults, blips, chanVars, fsVars, upVars>>

\* the queue q of intake or saves with ForceSync sent to it
force_sync_not_sent(q) == q
force_sync_sent(q) == Append(q, [type |-> "ForceSync"])

\* Event::ForceSync, handled by the orchestrator: sent on to intake, screenshots
\* and saves (a send to a task that has ended fails)
ForceSync ==
    /\ ostate = "running"
    /\ orx # << >>
    /\ Head(orx).type = "ForceSync"
    /\ External
    /\ sent < MaxSent
    /\ orx' = Tail(orx)
    /\ irx' = IF istate = "running" THEN force_sync_sent(irx) ELSE irx
    /\ rx' = IF pc = "halted" THEN rx
             ELSE Append(rx, [id |-> sent + 1, high |-> force_sync.high,
                              online |-> "force", at |-> now])
    /\ sent' = sent + 1
    /\ saves' = IF saves.state = "running"
                THEN [saves EXCEPT !.rx = force_sync_sent(@)]
                ELSE saves
    /\ Handled("ForceSync", << >>, FALSE, FALSE)
    /\ UNCHANGED <<ostate, current_play, previous_play, plays, current, writes, conn,
                   istate, ibuffer, play_to_intake, srx, remote, restarts, warm, faults,
                   blips, buffer, priority_event, priority_retry, normal_retry,
                   retry_deadline, event, pc, log, now, is_online, wake, fsVars,
                   intake_is_online, intake_wake, shots, downstream, closed>>

\* the dispatch of the screenshots loop: Screenshots::handle on an upload event
\* taken from the buffer (UploadScreenshot, UploadExtra), the upload ending with
\* outcome and the remove_file working or not; IsOnline sets is_online
ScreenshotsDispatch(outcome, remove_ok) ==
    /\ pc = "dispatch"
    /\ IF event = << >> /\ buffer # << >>
       THEN /\ dispatch(upload_action(outcome, remove_ok))
            /\ LET files == uploaded_then_removed([uploaded |-> shots.uploaded,
                                                   removed |-> shots.removed],
                                                  Head(buffer).id, outcome, remove_ok)
               IN  shots' = [shots EXCEPT !.uploaded = files.uploaded,
                                          !.removed = files.removed]
            /\ orx' = observed(orx, is_online, outcome)
       ELSE /\ outcome = "ok" /\ remove_ok
            /\ dispatch(IF event # << >> /\ event[1].online = "force"
                        THEN force_sync.action
                        ELSE IF event # << >> /\ event[1].online = "halt"
                        THEN "Halt" ELSE "Continue")
            /\ UNCHANGED <<shots, orx>>
    /\ UNCHANGED <<ostate, current_play, previous_play, lastEv, plays, current, writes,
                   conn, istate, irx, ibuffer, play_to_intake, srx, remote, restarts,
                   warm, events, faults, blips, fsVars, intake_is_online,
                   intake_wake, saves,
                   downstream>>

\* the orchestrator sends saves UploadSave or UploadScreenshot for a file it has
\* put in the pending directory
SavesSend(type) ==
    /\ saves.sent < MaxSent
    /\ saves' = [saves EXCEPT !.sent = @ + 1,
                              !.rx = IF saves.state = "running"
                                     THEN Append(@, [type |-> type, id |-> saves.sent + 1])
                                     ELSE @]
    /\ UNCHANGED <<ostate, current_play, previous_play, orx, lastEv, plays, current,
                   writes, conn, istate, irx, ibuffer, play_to_intake, srx, remote,
                   restarts, warm, events, faults, blips, chanVars, fsVars,
                   intake_is_online, intake_wake, shots, downstream>>

\* Saves::start, an iteration that takes an event off the channel (recv,
\* timeout_at or try_recv)
SavesRecv ==
    /\ saves.state = "running"
    /\ saves.rx # << >>
    /\ LET e == Head(saves.rx) IN
       saves' = IF e.type = "StartShutdown"
                THEN [saves EXCEPT !.rx = Tail(@), !.state = "halted"]
                ELSE IF e.type = "IsOnline"
                THEN [saves EXCEPT !.rx = Tail(@), !.is_online = e.online]
                ELSE IF e.type = "ForceSync"
                THEN [saves EXCEPT !.rx = Tail(@), !.is_online = force_sync.is_online]
                ELSE [saves EXCEPT !.rx = Tail(@), !.buffer = Append(@, e)]
    /\ UNCHANGED <<ostate, current_play, previous_play, orx, lastEv, plays, current,
                   writes, conn, istate, irx, ibuffer, play_to_intake, srx, remote,
                   restarts, warm, events, faults, blips, chanVars, fsVars,
                   intake_is_online, intake_wake, shots, downstream>>

\* screenshots::make_retry(): the retry deadlines of a failed upload
make_retry == "Some"

\* The files of one save of one game on one day.  saves.fs gives for the
\* emulator's save file, its link in pending_saves and its link in keep_saves
\* the inode the path names (0: no such file), and says whether the link of the
\* latest screenshot in pending_saves exists; saves.inodes[i] is what inode i
\* holds.  Files that SavesSend hands over are named by their number.
pending_save_destination == 0
pending_screenshot_destination == 0 - 1
Contents == 1..2

\* what File::open(path) finds: 0 when there is no such file
file_content(s, path) ==
    IF path = pending_save_destination
    THEN IF s.fs.pending = 0 THEN 0 ELSE s.inodes[s.fs.pending]
    ELSE IF path = pending_screenshot_destination THEN s.fs.shot
    ELSE IF path \in s.removed THEN 0 ELSE path

\* hex::encode(Sha1::digest(content))
sha1(content) == <<"sha1", content>>

\* Uploader::digest_for_path with the file holding content: the cache after the
\* call and the Option it returns
digest_for_path(cache, path, content) ==
    IF cache # << >> /\ cache[1].path = path
    THEN [cache |-> cache, digest |-> << cache[1].digest >>]
    ELSE IF content = 0
    THEN [cache |-> cache, digest |-> << >>]
    ELSE [cache |-> << [path |-> path, digest |-> sha1(content)] >>,
          digest |-> << sha1(content) >>]

\* remove_file(path) after an upload
remove_file(fs, path) ==
    IF path = pending_save_destination THEN [fs EXCEPT !.pending = 0]
    ELSE IF path = pending_screenshot_destination THEN [fs EXCEPT !.shot = 0]
    ELSE fs

\* Saves::start, an iteration that finds the channel empty (the retry deadline,
\* if any, reached) and handles buffer.pop_front(): upload_path_to_directory
\* takes the digest, opens the file (no request when there is none) and posts
\* it, the upload ends with outcome, the remove_file works or not
SavesHandle(outcome, remove_ok) ==
    /\ saves.state = "running"
    /\ saves.rx = << >>
    /\ saves.buffer # << >>
    /\ outcome # "ok" => saves.failed < MaxRetry /\ remove_ok
    /\ file_content(saves, Head(saves.buffer).id) = 0 => outcome = "other"
    /\ LET e == Head(saves.buffer)
           content == file_content(saves, e.id)
           d == digest_for_path(saves.digest_cache, e.id, content)
           files == uploaded_then_removed([uploaded |-> saves.uploaded,
                                           removed |-> saves.removed],
                                          e.id, outcome, remove_ok)
       IN  saves' = [saves EXCEPT
                       !.buffer = IF outcome = "ok" THEN Tail(@)
                                  ELSE buffer_push_front(Tail(@), e),
                       !.retry_deadline = IF outcome = "ok" THEN "None" ELSE make_retry,
                       !.failed = IF outcome = "ok" THEN @ ELSE @ + 1,
                       !.uploaded = files.uploaded,
                       !.removed = files.removed,
                       !.digest_cache = d.cache,
                       !.request = IF content = 0 \/ outcome = "other" THEN @
                                   ELSE << [path |-> e.id, digest |-> d.digest,
                                            body |-> content] >>,
                       !.fs = IF outcome = "ok" /\ remove_ok THEN remove_file(@, e.id)
                              ELSE @]
    /\ orx' = observed(orx, saves.is_online, outcome)
    /\ UNCHANGED <<ostate, current_play, previous_play, lastEv, plays, current, writes,
                   conn, istate, irx, ibuffer, play_to_intake, srx, remote, restarts,
                   warm, events, faults, blips, chanVars, fsVars, intake_is_online,
                   intake_wake,
                   shots, downstream>>

\* the emulator writes content to its save file, over the file it wrote before
\* (in_place: the same inode, so every link to it reads the new content) or as
\* a new file, and the save watcher sends the path to the orchestrator
SaveWatcher(content, in_place) ==
    /\ ostate = "running"
    /\ events + Len(orx) < MaxEvents
    /\ in_place => saves.fs.save # 0
    /\ saves' = IF in_place
                THEN [saves EXCEPT !.inodes[saves.fs.save] = content]
                ELSE [saves EXCEPT !.inodes = Append(@, content),
                                   !.fs.save = Len(saves.inodes) + 1]
    /\ orx' = Append(orx, [type |-> "SaveFileCreated"])
    /\ UNCHANGED <<ostate, current_play, previous_play, lastEv, plays, current, writes,
                   conn, istate, irx, ibuffer, play_to_intake, srx, remote, restarts,
                   warm, events, faults, blips, chanVars, fsVars, intake_is_online,
                   intake_wake, shots, downstream>>

\* hard_link(original, link): link(2) fails when the link exists already
hard_link(original, link) == IF link = 0 THEN original ELSE link

\* Event::SaveFileCreated for that save file (its extension and game directory
\* are found): the four hard links, then UploadSave and, when the screenshot was
\* linked, UploadScreenshot.  latest: the latest screenshot exists
SaveFileCreated(latest) ==
    /\ ostate = "running"
    /\ orx # << >>
    /\ Head(orx).type = "SaveFileCreated"
    /\ External
    /\ orx' = Tail(orx)
    /\ LET fs == saves.fs
           pending_save_res == fs.pending = 0
           keep_save_res == fs.keep = 0
           pending_screenshot_res == latest /\ fs.shot = 0
           linked == [fs EXCEPT !.pending = hard_link(fs.save, @),
                                !.keep = hard_link(fs.save, @),
                                !.shot = IF pending_screenshot_res THEN 1 ELSE @]
           upload_save == [type |-> "UploadSave", id |-> pending_save_destination]
           upload_screenshot == [type |-> "UploadScreenshot",
                                 id |-> pending_screenshot_destination]
           sends == pending_save_res /\ keep_save_res /\ saves.state = "running"
       IN  /\ saves' = [saves EXCEPT
                          !.fs = linked,
                          !.rx = IF ~sends THEN @
                                 ELSE IF pending_screenshot_res
                                 THEN Append(Append(@, upload_save), upload_screenshot)
                                 ELSE Append(@, upload_save)]
           /\ Handled("SaveFileCreated", << >>,
                      ~pending_save_res \/ ~keep_save_res \/ ~pending_screenshot_res
                          \/ saves.state # "running",
                      FALSE)
    /\ UNCHANGED <<ostate, current_play, previous_play, plays, current, writes, conn,
                   istate, irx, ibuffer, play_to_intake, srx, remote, restarts, warm,
                   faults, blips, chanVars, fsVars, intake_is_online, intake_wake,
                   shots, downstream>>

\* --------------------------------------------------------- extension helpers
\* A path is the sequence of its components and a component a sequence of
\* characters; None is << >> and Some(x) is << x >>.
Chars == {".", "f", "o"}
Names == UNION {[1..n -> Chars] : n \in 1..MaxLen}
\* paths as Path::components yields them (a "." component only comes first):
\* the empty path, a name alone, a name in a directory
FilePaths ==
    {<< >>} \cup {<< n >> : n \in Names}
            \cup {<< <<"d">>, n >> : n \in Names \ {<<".">>}}

\* Path::file_name: the last component when it is a normal one
file_name(path) ==
    IF path = << >> \/ path[Len(path)] \in {<<".">>, <<".", ".">>} THEN << >>
    ELSE << path[Len(path)] >>

\* where a string has its dots
Dots(b) == {i \in DOMAIN b : b[i] = "."}
First(S) == CHOOSE i \in S : \A j \in S : i <= j
Last(S) == CHOOSE i \in S : \A j \in S : i >= j

\* str::split_once('.'): what follows the first dot
after_last_dot(b) ==
    IF Dots(b) = {} THEN << >> ELSE << SubSeq(b, Last(Dots(b)) + 1, Len(b)) >>
after_first_dot(b) ==
    IF Dots(b) = {} THEN << >> ELSE << SubSeq(b, First(Dots(b)) + 1, Len(b)) >>

full_extension(path) ==
    IF file_name(path) = << >> THEN << >> ELSE after_first_dot(file_name(path)[1])

\* PathBuf::set_file_name
set_file_name(path, name) ==
    IF file_name(path) = << >> THEN Append(path, name)
    ELSE Append(SubSeq(path, 1, Len(path) - 1), name)

remove_full_extension(path) ==
    IF file_name(path) = << >> \/ full_extension(path) = << >> THEN path
    ELSE LET basename == file_name(path)[1]
             stem_len == Len(basename) - Len(full_extension(path)[1]) - 1
         IN  IF stem_len > 0 THEN set_file_name(path, SubSeq(basename, 1, stem_len))
             ELSE path

\* full_extension(&path) is called
FullExtension ==
    /\ "full_extension" \notin applied
    /\ applied' = applied \cup {"full_extension"}
    /\ extension' = full_extension(file)
    /\ UNCHANGED <<ostate, current_play, previous_play, orx, lastEv, plays, current,
                   writes, conn, istate, irx, ibuffer, play_to_intake, srx, remote,
                   restarts, warm, events, faults, blips, chanVars, upVars, file, stem_path>>

\* remove_full_extension(&mut path) is called
RemoveFullExtension ==
    /\ "remove_full_extension" \notin applied
    /\ applied' = applied \cup {"remove_full_extension"}
    /\ stem_path' = remove_full_extension(stem_path)
    /\ UNCHANGED <<ostate, current_play, previous_play, orx, lastEv, plays, current,
                   writes, conn, istate, irx, ibuffer, play_to_intake, srx, remote,
                   restarts, warm, events, faults, blips, chanVars, upVars, file, extension>>

\* ------------------------------------------------------------- specification
\* the files the screenshot watcher may report
ScreenshotPaths == { [dir |-> <<"snap">>, name |-> "shot1", ext |-> "png"] }

\* first start, on empty tables
\* main.rs: every uploader starts with is_online = true; nothing queued, nothing
\* uploaded or removed yet
InitUp ==
    /\ intake_is_online = TRUE
    /\ intake_wake = 0
    /\ saves = [state |-> "running", rx |-> << >>, buffer |-> << >>,
                is_online |-> TRUE, retry_deadline |-> "None", sent |-> 0,
                failed |-> 0, uploaded |-> {}, removed |-> {},
                fs |-> [save |-> 0, pending |-> 0, keep |-> 0, shot |-> 0],
                inodes |-> << >>, digest_cache |-> << >>, request |-> << >>]
    /\ shots = [uploaded |-> {}, removed |-> {}, extra |-> {}, scan |-> "spawned"]
    /\ downstream = [screenshot_watcher |-> << >>, save_watcher |-> << >>,
                     server |-> << >>, notify |-> << >>]

InitApp ==
    /\ ostate = "running"
    /\ current_play = << >>
    /\ previous_play = << >>
    /\ orx = << >>
    /\ lastEv = [ev |-> "Startup", path |-> << >>, errors |-> FALSE, success |-> FALSE]
    /\ plays = << >>
    /\ current = << >>
    /\ writes = << >>
    /\ conn = << >>
    /\ istate = "running"
    /\ irx = << >>
    /\ ibuffer = << >>
    /\ play_to_intake = << >>
    /\ srx = << >>
    /\ remote = << >>
    /\ restarts = 0
    /\ warm = 0
    /\ events = 0
    /\ faults = 0
    /\ blips = 0
    /\ InitUp

InitChan ==
    /\ rx = << >>
    /\ buffer = << >>
    /\ priority_event = << >>
    /\ priority_retry = 0
    /\ normal_retry = 0
    /\ retry_deadline = << >>
    /\ event = << >>
    /\ pc = "loop"
    /\ sent = 0
    /\ log = << >>
    /\ now = 0
    /\ is_online = TRUE
    /\ wake = 0
    /\ closed = FALSE

\* no path has been handed to the extension helpers
InitFs ==
    /\ file = << >>
    /\ stem_path = << >>
    /\ extension = << >>
    /\ applied = {}

Init == InitApp /\ InitChan /\ InitFs

Next ==
    \/ \E path \in RawPaths, fail \in {"none", "remove", "game", "start", "dirs"} :
          GameStarted(path, fail)
    \/ \E path \in RawPaths, db_ok \in BOOLEAN : GameEnded(path, db_ok)
    \/ \E path \in ScreenshotPaths, fail \in {"none", "rename", "remove", "link"} :
          ScreenshotCreated(path, fail)
    \/ \E db_ok \in BOOLEAN : IntakeStarted(db_ok)
    \/ \E db_ok \in BOOLEAN : IntakeEnded(db_ok)
    \/ \E db_ok \in BOOLEAN : IntakeFull(db_ok)
    \/ StartShutdown
    \/ \E i \in DOMAIN writes, ok \in BOOLEAN : SaveDelete(i, ok)
    \/ \E ok \in BOOLEAN : SaveInsert(ok)
    \/ IntakeRecv
    \/ \E ok \in BOOLEAN : IntakeHandle(ok)
    \/ Restart

Spec == Init /\ [][Next]_vars

\* the priority-retry loop alone, with its senders
NextChan ==
    \/ \E high \in BOOLEAN : ChanSend(high)
    \/ \E action \in Actions : ChanPriorityRetry(action)
    \/ ChanRecv
    \/ \E action \in Actions : ChanDispatch(action)

SpecChan == Init /\ [][NextChan]_vars

\* the priority-retry loop of an uploader with time: one event of either
\* priority is sent, then IsOnline events
NextTimed ==
    \/ \E high \in BOOLEAN :
          (sent = 0 \/ (~high /\ retry_deadline # << >>)) /\ ChanSend(high)
    \/ \E online \in BOOLEAN : ChanSendIsOnline(online)
    \/ \E action \in Actions : ChanPriorityRetry(action)
    \/ ChanRecv
    \/ \E action \in Actions : ChanDispatch(action)
    \/ Tick

SpecTimed == Init /\ [][NextTimed]_vars

\* a priority-retry loop about to hand an event to its handler once more: a
\* high-priority event after priority_retry retries, its sleep just over, or the
\* front of the buffer after normal_retry retries, its deadline just passed; the
\* loop is any age and the implementor online or not, and the log starts here
Elapsed == {t \in 0..MaxElapsed : t % Quantum = 0}
InitBackoff ==
    /\ InitApp
    /\ InitFs
    /\ rx = << >>
    /\ sent = 1
    /\ log = << >>
    /\ now \in Elapsed
    /\ is_online \in BOOLEAN
    /\ closed = FALSE
    /\ \/ /\ pc = "loop"
          /\ priority_event = << [id |-> 1, high |-> TRUE, online |-> "keep", at |-> now] >>
          /\ priority_retry \in 1..MaxCount
          /\ wake = now
          /\ buffer = << >>
          /\ normal_retry = 0
          /\ event = << >>
          /\ retry_deadline = << >>
       \/ /\ pc = "dispatch"
          /\ priority_event = << >>
          /\ priority_retry = 0
          /\ wake = 0
          /\ buffer = << [id |-> 1, high |-> FALSE, online |-> "keep", at |-> now] >>
          /\ normal_retry \in 0..MaxCount
          /\ event = << >>
          /\ retry_deadline = << >>

SpecBackoff == InitBackoff /\ [][NextChan]_vars

\* the same loops with time passing and one more event sent
NextReset ==
    \/ \E high \in BOOLEAN : sent = 1 /\ ChanSend(high)
    \/ \E action \in Actions : ChanPriorityRetry(action)
    \/ ChanRecv
    \/ \E action \in Actions : ChanDispatch(action)
    \/ Tick
SpecReset == InitBackoff /\ [][NextReset]_vars

\* the singleton's writers alone: the game signals that queue the writes, the
\* writes, shutdown and restart (intake only takes its queue in, to halt)
NextSingleton ==
    \/ \E path \in RawPaths, fail \in {"none", "remove", "game", "start", "dirs"} :
          GameStarted(path, fail)
    \/ \E path \in RawPaths, db_ok \in BOOLEAN : GameEnded(path, db_ok)
    \/ StartShutdown
    \/ \E i \in DOMAIN writes, ok \in BOOLEAN : SaveDelete(i, ok)
    \/ \E ok \in BOOLEAN : SaveInsert(ok)
    \/ IntakeRecv
    \/ Restart

SpecSingleton == Init /\ [][NextSingleton]_vars

\* the orchestrator's game signals and screenshots with the singleton's writes,
\* shutdown and restart (intake only takes its queue in, to halt)
NextGames ==
    \/ \E path \in RawPaths, fail \in {"none", "remove", "game", "start", "dirs"} :
          GameStarted(path, fail)
    \/ \E path \in RawPaths, db_ok \in BOOLEAN : GameEnded(path, db_ok)
    \/ \E path \in ScreenshotPaths, fail \in {"none", "rename", "remove", "link"} :
          ScreenshotCreated(path, fail)
    \/ StartShutdown
    \/ \E i \in DOMAIN writes, ok \in BOOLEAN : SaveDelete(i, ok)
    \/ \E ok \in BOOLEAN : SaveInsert(ok)
    \/ IntakeRecv
    \/ Restart

SpecGames == Init /\ [][NextGames]_vars

\* a program that has ended, started on a plays table of any rows and an empty
\* singleton: the start loads the backlog
PlayRows ==
    [game : {g.path : g \in games}, start_time : {"t"}, end_time : {"None", "t"},
     intake_id : {0, 1}, submitted_start : {"None", "t"},
     submitted_end : {"None", "t"}, skipped : BOOLEAN]
Tables == UNION {[1..n -> PlayRows] : n \in 0..MaxRows}
InitBacklog ==
    /\ ostate = "halted"
    /\ istate = "halted"
    /\ plays \in Tables
    /\ current = << >>
    /\ current_play = << >>
    /\ previous_play = << >>
    /\ orx = << >>
    /\ lastEv = [ev |-> "StartShutdown", path |-> << >>, errors |-> FALSE,
                 success |-> FALSE]
    /\ writes = << >>
    /\ conn = << >>
    /\ irx = << >>
    /\ ibuffer = << >>
    /\ play_to_intake = << >>
    /\ srx = << >>
    /\ remote = << >>
    /\ restarts = 0
    /\ warm = 0
    /\ events = 0
    /\ faults = 0
    /\ blips = 0
    /\ InitUp
    /\ InitChan
    /\ InitFs

NextBacklog == Restart

SpecBacklog == InitBacklog /\ [][NextBacklog]_vars

\* the extension helpers on any path: a copy of the path is made, and the two are
\* applied in either order
InitExtension ==
    /\ InitApp
    /\ InitChan
    /\ file \in FilePaths
    /\ stem_path = file
    /\ extension = << >>
    /\ applied = {}

NextExtension == FullExtension \/ RemoveFullExtension

SpecExtension == InitExtension /\ [][NextExtension]_vars

\* one session of game A from a first start on empty tables: GameStarted(A),
\* ScreenshotCreated, GameEnded(A) in this order, no database or filesystem
\* failure, HTTP requests failing or not, shutdown and restart at any point
GameA == <<"roms", "a.gba">>
SessionGameStarted == events = 0 /\ GameStarted(GameA, "none")
SessionScreenshotCreated ==
    events = 1 /\ \E path \in ScreenshotPaths : ScreenshotCreated(path, "none")
SessionGameEnded == events = 2 /\ GameEnded(GameA, TRUE)

NextSession ==
    \/ SessionGameStarted
    \/ SessionScreenshotCreated
    \/ SessionGameEnded
    \/ IntakeStarted(TRUE)
    \/ IntakeEnded(TRUE)
    \/ IntakeFull(TRUE)
    \/ StartShutdown
    \/ \E i \in DOMAIN writes : SaveDelete(i, TRUE)
    \/ SaveInsert(TRUE)
    \/ IntakeRecv
    \/ \E ok \in BOOLEAN : IntakeHandle(ok)
    \/ Restart

SpecSession == Init /\ [][NextSession]_vars

\* the online reports: /online and /offline are posted, the orchestrator fans
\* IsOnline out, intake, screenshots and saves receive; before that, one pending
\* file is given to saves, whose upload works or times out and may report too
NextOnline ==
    \/ \E online \in BOOLEAN : ServerIsOnline(online)
    \/ IsOnline
    \/ IntakeRecv
    \/ ChanRecv
    \/ ScreenshotsDispatch("ok", TRUE)
    \/ (sent = 0 /\ saves.sent = 0) /\ SavesSend("UploadSave")
    \/ SavesRecv
    \/ \E outcome \in {"ok", "network"} : SavesHandle(outcome, TRUE)

SpecOnline == Init /\ [][NextOnline]_vars

\* the same, the three receive loops being tasks that run: each takes what is on
\* its queue, and the screenshots loop dispatches what it took
SpecOnlineLive ==
    /\ SpecOnline
    /\ WF_vars(IntakeRecv)
    /\ WF_vars(SavesRecv)
    /\ WF_vars(ChanRecv)
    /\ WF_vars(ScreenshotsDispatch("ok", TRUE))

\* the uploads: pending files are given to screenshots and to saves, MaxSent in
\* all, and uploaded
NextUploads ==
    \/ (sent + saves.sent < MaxSent) /\ ChanSend(FALSE)
    \/ ChanRecv
    \/ \E outcome \in Outcomes, remove_ok \in BOOLEAN :
          ScreenshotsDispatch(outcome, remove_ok)
    \/ \E type \in {"UploadSave", "UploadScreenshot"} :
          (sent + saves.sent < MaxSent) /\ SavesSend(type)
    \/ SavesRecv
    \/ \E outcome \in Outcomes, remove_ok \in BOOLEAN : SavesHandle(outcome, remove_ok)

SpecUploads == Init /\ [][NextUploads]_vars

\* a start on any small plays table, the singleton absent or referencing one of
\* its rows, followed by a game being started and intake receiving
StartupRows ==
    {r \in PlayRows : r.game = <<"a.gba">> /\ r.submitted_start = r.submitted_end}
StartupTables == UNION {[1..n -> StartupRows] : n \in 0..MaxRows}
InitStartup ==
    /\ ostate = "halted"
    /\ istate = "halted"
    /\ plays \in StartupTables
    /\ current \in {<< >>} \cup {<< r >> : r \in DOMAIN plays}
    /\ current_play = << >>
    /\ previous_play = << >>
    /\ orx = << >>
    /\ lastEv = [ev |-> "StartShutdown", path |-> << >>, errors |-> FALSE,
                 success |-> FALSE]
    /\ writes = << >>
    /\ conn = << >>
    /\ irx = << >>
    /\ ibuffer = << >>
    /\ play_to_intake = << >>
    /\ srx = << >>
    /\ remote = << >>
    /\ restarts = 0
    /\ warm = 0
    /\ events = 0
    /\ faults = 0
    /\ blips = 0
    /\ InitUp
    /\ InitChan
    /\ InitFs

NextStartup ==
    \/ Restart
    \/ SessionGameStarted
    \/ IntakeRecv

SpecStartup == InitStartup /\ [][NextStartup]_vars

\* the acknowledgements of intake: the program starts on a small plays table of
\* plays not yet submitted in full, then game A is started and ended, no call of
\* theirs failing, intake submits, and the orchestrator handles what intake
\* sends back, its database update failing or not
AckRows ==
    {r \in PlayRows : /\ r.game = <<"a.gba">>
                      /\ r.submitted_end = "None"
                      /\ ~r.skipped
                      /\ (r.intake_id # 0) <=> (r.submitted_start = "t")}
AckTables == UNION {[1..n -> AckRows] : n \in 0..MaxRows}
InitAcks ==
    /\ ostate = "halted"
    /\ istate = "halted"
    /\ plays \in AckTables
    /\ current = << >>
    /\ current_play = << >>
    /\ previous_play = << >>
    /\ orx = << >>
    /\ lastEv = [ev |-> "StartShutdown", path |-> << >>, errors |-> FALSE,
                 success |-> FALSE]
    /\ writes = << >>
    /\ conn = << >>
    /\ irx = << >>
    /\ ibuffer = << >>
    /\ play_to_intake = << >>
    /\ srx = << >>
    /\ remote = << >>
    /\ restarts = 0
    /\ warm = 0
    /\ events = 0
    /\ faults = 0
    /\ blips = 0
    /\ InitUp
    /\ InitChan
    /\ InitFs

NextAcks ==
    \/ Restart
    \/ SessionGameStarted
    \/ events = 1 /\ GameEnded(GameA, TRUE)
    \/ \E db_ok \in BOOLEAN : IntakeStarted(db_ok)
    \/ \E db_ok \in BOOLEAN : IntakeEnded(db_ok)
    \/ \E db_ok \in BOOLEAN : IntakeFull(db_ok)
    \/ IntakeRecv
    \/ IntakeHandle(TRUE)

SpecAcks == InitAcks /\ [][NextAcks]_vars

\* POST /sync while the uploaders have work: a game is started (intake submits
\* its start), one pending file each is given to screenshots, whose upload works
\* or is answered with an error status, and to saves, the first seconds of the
\* program pass, and the orchestrator fans ForceSync out
NextSync ==
    \/ ServerForceSync
    \/ ForceSync
    \/ SessionGameStarted
    \/ IntakeRecv
    \/ IntakeHandle(TRUE)
    \/ sent = 0 /\ ChanSend(FALSE)
    \/ ChanRecv
    \/ \E outcome \in {"ok", "status"} : ScreenshotsDispatch(outcome, TRUE)
    \/ saves.sent = 0 /\ SavesSend("UploadSave")
    \/ SavesRecv
    \/ SavesHandle("ok", TRUE)
    \/ now < 2 * online_secs /\ Tick

SpecSync == Init /\ [][NextSync]_vars

\* shutdown while the uploaders have failing work: a game is started, intake's
\* request for it works or fails, screenshots and saves are each given one file
\* whose upload works or fails, time passes, and the orchestrator handles
\* StartShutdown
NextHalt ==
    \/ SessionGameStarted
    \/ IntakeRecv
    \/ \E ok \in BOOLEAN : IntakeHandle(ok)
    \/ sent = 0 /\ ChanSend(FALSE)
    \/ ChanRecv
    \/ \E outcome \in {"ok", "status"} : ScreenshotsDispatch(outcome, TRUE)
    \/ saves.sent = 0 /\ SavesSend("UploadSave")
    \/ SavesRecv
    \/ \E outcome \in {"ok", "status"} : SavesHandle(outcome, TRUE)
    \/ StartShutdown
    \/ Tick

SpecHalt == Init /\ [][NextHalt]_vars

\* saves of one game on one day: the emulator writes its save file, the
\* orchestrator links it and hands it to saves, whose uploads work or fail
NextDigest ==
    \/ \E content \in Contents, in_place \in BOOLEAN : SaveWatcher(content, in_place)
    \/ \E latest \in BOOLEAN : SaveFileCreated(latest)
    \/ saves.sent = 0 /\ SavesSend("UploadSave")
    \/ SavesRecv
    \/ \E outcome \in Outcomes, remove_ok \in BOOLEAN : SavesHandle(outcome, remove_ok)

SpecDigest == Init /\ [][NextDigest]_vars

\* screenshots without a game: the scan of extra_directory that every start
\* spawns, screenshots that arrive before, between and after games, whose move
\* works or fails, and shutdowns followed by restarts
NextExtra ==
    \/ UploadExtraScreenshots
    \/ \E i \in DOMAIN StrayPaths, fail \in {"none", "rename"} :
          ScreenshotCreated(StrayPaths[i], fail)
    \/ events = 1 /\ GameStarted(GameA, "none")
    \/ StartShutdown
    \/ IntakeRecv
    \/ Restart

SpecExtra == Init /\ [][NextExtra]_vars

\* the priority-retry loop whose senders go away: a first event of either
\* priority and normal events while a retry is pending are sent and handled
\* with any Action, the first seconds pass, and at some time the last sender is
\* dropped
NextClosed ==
    \/ \E high \in BOOLEAN :
          (sent = 0 \/ (~high /\ retry_deadline # << >>)) /\ ChanSend(high)
    \/ DropSenders
    \/ \E action \in Actions : ChanPriorityRetry(action)
    \/ ChanRecv
    \/ \E action \in Actions : ChanDispatch(action)
    \/ now < 2 * online_secs /\ Tick

SpecClosed == Init /\ [][NextClosed]_vars

\* ------------------------------------------------------- the loop's ordering
\* the last invocation of the handler
LastLog == log[Len(log)]
\* this step invokes the handler
Invokes == Len(log') = Len(log) + 1
\* events of a sequence that are not high-priority
Normals(q) == SelectSeq(q, LAMBDA e : ~e.high)
\* ids of the events of a sequence
Ids(q) == {q[i].id : i \in DOMAIN q}
\* ids of normal events sent and not yet completed
PendingNormal == Ids(Normals(rx)) \cup Ids(Normals(buffer)) \cup Ids(Normals(event))
\* how many times id sits in q
Count(q, id) == Cardinality({i \in DOMAIN q : q[i].id = id})
\* the handler's invocations that completed an event
Completed == SelectSeq(log, LAMBDA l : l.action # "Retry")

\* C1: a high-priority event taken off the queue is handed to the handler in the
\* very step that disposes of it, whatever the buffer holds, and a high-priority
\* event waiting to be retried is the only event the handler is invoked on; so no
\* buffered normal event is handled before it.  A normal event taken off the
\* queue goes to the back of the buffer, and the handler is not invoked.
C1_HighPriorityPreempts ==
    [][/\ (pc = "dispatch" /\ pc' # pc /\ event # << >> /\ event[1].high)
            => (Invokes /\ log'[Len(log')].id = event[1].id /\ buffer' = buffer)
       /\ (priority_event # << >> /\ Invokes)
            => log'[Len(log')].id = priority_event[1].id
       /\ (Invokes /\ ~log'[Len(log')].high)
            => (event = << >> /\ priority_event = << >>)
       /\ (pc = "dispatch" /\ pc' # pc /\ event # << >> /\ ~event[1].high)
            => (buffer' = Append(buffer, event[1]) /\ log' = log)]_vars

\* C1 witness: the handler has been invoked on a high-priority event while a
\* normal event that arrived before it waits in the buffer, never handled
C1_Witness ==
    /\ log # << >>
    /\ LastLog.high
    /\ \E j \in DOMAIN buffer :
          /\ buffer[j].id < LastLog.id
          /\ \A i \in DOMAIN log : log[i].id # buffer[j].id

\* C2: a normal event the handler answered Retry on is at the front of the
\* buffer when the loop comes round; the handler is never invoked on a normal
\* event while a normal event sent before it is pending, so normal events
\* complete in sending order; no event is completed twice, and until the loop
\* halts every event sent is in exactly one place (queue, loop locals, buffer,
\* or completed).
C2_NormalOrderKept ==
    [][/\ \A i \in DOMAIN log' : ~log'[i].high =>
             /\ \A p \in PendingNormal' : log'[i].id <= p
             /\ log'[i].action # "Retry" => log'[i].id \notin PendingNormal'
       /\ \A i, j \in DOMAIN Completed' :
             /\ (i # j) => Completed'[i].id # Completed'[j].id
             /\ (i < j /\ ~Completed'[i].high /\ ~Completed'[j].high)
                   => Completed'[i].id < Completed'[j].id
       /\ pc' # "halted" =>
             \A id \in 1..sent' :
                Count(rx', id) + Count(event', id) + Count(priority_event', id)
                   + Count(buffer', id) + Count(Completed', id) = 1
       /\ (Invokes /\ ~log'[Len(log')].high /\ log'[Len(log')].action = "Retry")
             => (pc' = "loop" /\ buffer' = buffer
                 /\ Head(buffer').id = log'[Len(log')].id)]_vars

\* C2 witness: the handler answered Retry on a normal event while another waited
\* behind it, and later completed the first and then the second
C2_Witness ==
    \E i, j, k \in DOMAIN log :
       /\ i < j /\ j < k
       /\ ~log[i].high /\ log[i].action = "Retry"
       /\ log[j].id = log[i].id /\ log[j].action = "Continue"
       /\ ~log[k].high /\ log[k].id > log[j].id /\ log[k].action = "Continue"
       /\ \E m \in 1..i : log[m].high /\ log[m].id > log[k].id

\* ------------------------------------------------------------ game signals
\* this step is the orchestrator handling a GameEnded event
HandlesGameEnded == events' = events + 1 /\ lastEv'.ev = "GameEnded"
\* the GameEnded handled in this step names another game than current_play's, or
\* there is no current_play
EndsOtherGame ==
    /\ HandlesGameEnded
    /\ trim_game_path(lastEv'.path) # << >>
    /\ \/ current_play = << >>
       \/ current_play[1].game.path # trim_game_path(lastEv'.path)[1]

\* C3: after a GameStarted that completed successfully (the success notified, no
\* error), and once every detached write of the singleton has run (none of them
\* failing), current_play is the game of the trimmed path and the singleton row
\* references current_play.id.
C3_GameStartedPersisted ==
    (lastEv.ev = "GameStarted" /\ lastEv.success /\ ~lastEv.errors /\ faults = 0
        /\ writes = << >> /\ conn = << >>)
    => /\ current_play # << >>
       /\ << current_play[1].game.path >> = trim_game_path(lastEv.path)
       /\ current = << current_play[1].id >>

\* C4: a GameEnded for another game than current_play's, or with no
\* current_play, notifies an error and changes nothing: current_play,
\* previous_play, the plays rows and the singleton rows stay, and nothing is sent
\* to intake.
C4_MismatchChangesNothing ==
    [][EndsOtherGame =>
          /\ lastEv'.errors
          /\ current_play' = current_play
          /\ previous_play' = previous_play
          /\ plays' = plays
          /\ current' = current
          /\ irx' = irx]_vars

\* C5: every plays row with submitted_end set has intake_id and submitted_start
\* set.
C5_EndImpliesStart ==
    \A r \in DOMAIN plays :
       plays[r].submitted_end # "None"
          => (plays[r].intake_id # 0 /\ plays[r].submitted_start # "None")

\* C6: an intake_id that is set, in a plays row or in current_play, is the same
\* in the next state, whatever the step (restarts included), as long as no
\* database or filesystem call has failed.
C6_IntakeIdAssignedOnce ==
    [][faults' = 0 =>
          /\ \A r \in DOMAIN plays :
                plays[r].intake_id # 0 => plays'[r].intake_id = plays[r].intake_id
          /\ (current_play # << >> /\ current_play' # << >>
                /\ current_play'[1].id = current_play[1].id
                /\ current_play[1].intake_id # 0)
             => current_play'[1].intake_id = current_play[1].intake_id]_vars

\* C8: no play gets a second remote record (a second successful POST) and no
\* remote record is finished twice (a second successful PATCH), across clean
\* shutdowns and restarts with no database or filesystem failure.
C8_NoDuplicateSubmission ==
    faults = 0 =>
       /\ \A i, j \in DOMAIN remote : remote[i].play = remote[j].play => i = j
       /\ \A i \in DOMAIN remote : remote[i].patches <= 1

\* ------------------------------------------------------------------ singleton
\* C7: the "current" table never holds more than one row, between the two
\* statements of a write and between writes run in any order alike; when a write
\* completes without a failed statement the table holds the one row of its play
\* id, or no row when it was a write of "absent".
C7_SingletonAtMostOneRow ==
    [][/\ Len(current') <= 1
       /\ (conn # << >> /\ conn' = << >> /\ restarts' = restarts /\ faults' = faults)
             => current' = IF conn[1] = 0 THEN << >> ELSE << conn[1] >>]_vars

\* C7 witness: the write for play 2 has completed, queued after the write for
\* play 1 and run before it
C7_Witness ==
    /\ current = << 2 >>
    /\ conn = << >>
    /\ \E i \in DOMAIN writes : writes[i] = 1

\* -------------------------------------------------------------------- session
\* every task is idle: nothing queued, nothing buffered
Quiescent ==
    /\ ostate = "running"
    /\ istate = "running"
    /\ orx = << >>
    /\ irx = << >>
    /\ ibuffer = << >>
\* the remote records made for a play
RemoteRowsOf(rows, play_id) == {i \in DOMAIN rows : rows[i].play = play_id}

\* C9: a restart that finds the singleton referencing a play with end_time null,
\* intake_id and submitted_start set installs the play as current_play and puts
\* PreviousGame{play_id, intake_id} first on intake's queue; from then on the
\* matching GameEnded sends SubmitFull, intake handles that SubmitFull with
\* play_id in its map, by one PATCH and no POST, and sends IntakeEnded; no step
\* from the warm start on makes a remote record for the play, so the remote holds
\* no more records for it than at the warm start; and once everything is handled
\* the row's submitted_end is set.
C9_WarmStartPatchesOnly ==
    [][/\ (/\ restarts' = restarts + 1
           /\ current # << >>
           /\ plays[current[1]].end_time = "None"
           /\ plays[current[1]].intake_id # 0
           /\ plays[current[1]].submitted_start # "None")
          => /\ warm' = current[1]
             /\ current_play' # << >>
             /\ current_play'[1].id = current[1]
             /\ current_play'[1].intake_id = plays[current[1]].intake_id
             /\ irx' # << >>
             /\ Head(irx') = [type |-> "PreviousGame", play_id |-> current[1],
                              intake_id |-> plays[current[1]].intake_id]
       /\ warm' # 0 => RemoteRowsOf(remote', warm') = RemoteRowsOf(remote, warm')
       /\ (warm # 0 /\ events' = events + 1 /\ lastEv'.ev = "GameEnded")
          => /\ irx' # << >>
             /\ irx'[Len(irx')].type = "SubmitFull"
             /\ irx'[Len(irx')].play_id = warm
       /\ (warm # 0 /\ ibuffer # << >> /\ Head(ibuffer).type = "SubmitFull"
             /\ ibuffer' = Tail(ibuffer) /\ restarts' = restarts)
          => /\ warm \in DOMAIN play_to_intake
             /\ warm \notin DOMAIN play_to_intake'
             /\ Len(remote') = Len(remote)
             /\ remote'[play_to_intake[warm]].patches
                   = remote[play_to_intake[warm]].patches + 1
             /\ remote'[play_to_intake[warm]].endTime # "None"
             /\ ostate = "running"
                  => orx' = Append(orx, [type |-> "IntakeEnded", play_id |-> warm,
                                         submitted_end |-> "t"])
       /\ (warm' # 0 /\ Quiescent' /\ events' = 3)
          => plays'[warm'].submitted_end # "None"]_vars

\* C9 witness: after a warm start the game ended, and the one remote record was
\* finished by a PATCH that the row acknowledges
C9_Witness ==
    /\ warm = 1
    /\ Quiescent
    /\ events = 3
    /\ plays[1].submitted_end # "None"
    /\ Len(remote) = 1
    /\ remote[1].patches = 1

\* the state a cold session ends in, but for how the remote record was made
ColdSessionRow ==
    /\ Len(plays) = 1
    /\ plays[1].start_time # "None"
    /\ plays[1].end_time # "None"
    /\ plays[1].intake_id = 1
    /\ plays[1].submitted_start # "None"
    /\ plays[1].submitted_end # "None"
    /\ Len(remote) = 1
    /\ remote[1].game = "Game A"
    /\ remote[1].startTime # "None"
    /\ remote[1].endTime # "None"

\* C10, as the claim states it: when the cold session GameStarted(A),
\* ScreenshotCreated, GameEnded(A) has been handled to the end, there is one
\* plays row with start_time and end_time, one remote record made by a POST that
\* carried startTime, endTime and the label (so never patched), and the last
\* acknowledgement handled is the IntakeFull that set intake_id, submitted_start
\* and submitted_end.
C10_OnePostWithEndTime ==
    (restarts = 0 /\ Quiescent /\ events = 3)
    => /\ ColdSessionRow
       /\ remote[1].patches = 0
       /\ lastEv.ev = "IntakeFull"

\* C10, amended: in the cold session the only POST carries startTime and the
\* label and no endTime, no IntakeFull is ever sent, and when the session has
\* been handled to the end there is one plays row with start_time and end_time,
\* one remote record, finished by one PATCH, and intake_id, submitted_start (from
\* IntakeStarted) and submitted_end (from IntakeEnded) are all set.
C10_PostThenPatch ==
    [][restarts' = 0 =>
          /\ Len(remote') > Len(remote)
                => /\ Len(remote') = 1
                   /\ remote'[1] = [play |-> 1, game |-> "Game A", startTime |-> "t",
                                    endTime |-> "None", patches |-> 0]
          /\ \A i \in DOMAIN orx' : orx'[i].type # "IntakeFull"
          /\ (Quiescent' /\ events' = 3)
                => /\ ColdSessionRow'
                   /\ remote'[1].patches = 1
                   /\ lastEv'.ev = "IntakeEnded"]_vars

\* C10 witness: the cold session handled to the end
C10_Witness ==
    /\ restarts = 0
    /\ Quiescent
    /\ events = 3
    /\ lastEv.ev = "IntakeEnded"
    /\ srx # << >>
    /\ plays[1].submitted_end # "None"

\* C13: when the handler returns Halt the loop ends, and once it has ended the
\* handler is never invoked again: what the buffer and the queue hold stays
\* there, and an event sent afterwards (a second StartShutdown) is not queued.
C13_HaltIsFinal ==
    [][ /\ (Invokes /\ LastLog' .action = "Halt") => pc' = "halted"
        /\ pc = "halted"
            => /\ pc' = "halted"
               /\ log' = log
               /\ <<rx', buffer', priority_event'>> = <<rx, buffer, priority_event>>
      ]_vars

\* the loop has ended with an event still in its buffer, and another event was
\* sent after it ended
C13_Witness ==
    /\ pc = "halted"
    /\ LastLog.action = "Halt"
    /\ buffer # << >>
    /\ sent > LastLog.id
    /\ \A q \in {rx, buffer, priority_event} : sent \notin Ids(q)
    /\ \A i \in DOMAIN log : log[i].id # sent

Max(a, b) == IF a >= b THEN a ELSE b
\* C12: the wait before the k-th consecutive retry is
\* min(whole seconds since the loop started, min(k, 5) * base), base being 5 when
\* is_online() and 30 otherwise: the sleep before a high-priority event is retried
\* and both deadlines of a normal event are computed so; the wait never exceeds
\* 25 s online or 150 s offline, and a loop less than 30 s old never waits 30 s.
C12_BackoffFormula ==
    [][ /\ (Invokes /\ LastLog' .action = "Retry" /\ LastLog' .high)
            => LET k == priority_retry'
                   base == IF is_online' THEN 5 ELSE 30
                   wait == wake' - now
               IN  /\ k = priority_retry + 1
                   /\ wait = Min(now, (IF k > 5 THEN 5 ELSE k) * base)
                   /\ wait <= (IF is_online' THEN 25 ELSE 150)
                   /\ now < 30 => wait < 30
        /\ (Invokes /\ LastLog' .action = "Retry" /\ ~LastLog' .high)
            => LET k == normal_retry'
                   d == retry_deadline'[1]
               IN  /\ k = normal_retry + 1
                   /\ d.online - now = Min(now, (IF k > 5 THEN 5 ELSE k) * 5)
                   /\ d.offline - now = Min(now, (IF k > 5 THEN 5 ELSE k) * 30)
                   /\ d.online - now <= 25 /\ d.offline - now <= 150
                   /\ now < 30 => d.offline - now < 30
      ]_vars

\* a sixth retry, offline, of a loop 150 s old waits 150 s; a first retry of a loop
\* just started waits nothing
C12_Witness ==
    \/ /\ priority_retry = 6 /\ ~is_online /\ now = 150 /\ wake = 300
       /\ log # << >> /\ LastLog.action = "Retry"
    \/ /\ normal_retry = 6 /\ now = 150 /\ retry_deadline = << [online |-> 175, offline |-> 300] >>
       /\ log # << >> /\ LastLog.action = "Retry"

\* the timeout of the receive fires: the deadline is cleared
TimeoutFires == retry_deadline # << >> /\ retry_deadline' = << >>
\* this step hands the IsOnline event the loop received to the handler
DispatchesIsOnline ==
    pc = "dispatch" /\ pc' # pc /\ event # << >> /\ event[1].online # "keep"

\* C11: an IsOnline event is handled as soon as it is sent (or as soon as a sleep
\* of the loop is over), a retry deadline pending or not, and sets is_online; and
\* when the last event handled was IsOnline(true), the pending normal event is
\* retried at the online deadline set when it failed, or at once when that
\* deadline has passed: never at the later offline deadline.
C11_OnlinePreemptsOfflineBackoff ==
    [][ /\ DispatchesIsOnline
            => /\ Invokes
               /\ now = Max(event[1].at, wake)
               /\ is_online' = (event[1].online = "on")
               /\ retry_deadline' = retry_deadline
        /\ (TimeoutFires /\ log # << >> /\ LastLog.online = "on")
            => now = Max(LastLog.at, retry_deadline[1].online)
      ]_vars

\* the upload failed offline at 30 s (deadlines 35 s and 60 s), IsOnline(true) was
\* handled 10 s later and the upload was retried then
C11_Witness ==
    \E i \in DOMAIN log :
        /\ i > 1 /\ i + 2 <= Len(log)
        /\ log[i - 1].online = "off"
        /\ ~log[i].high /\ log[i].action = "Retry" /\ log[i].at = offline_secs
        /\ log[i + 1].online = "on" /\ log[i + 1].at = offline_secs + 10
        /\ log[i + 2].id = log[i].id /\ log[i + 2].at = log[i + 1].at

\* --------------------------------------------------------------- terminal plays
\* the Submit events for play r in a sequence of intake events
SubmitsFor(q, r) ==
    {i \in DOMAIN q : q[i].type \in {"SubmitStarted", "SubmitEnded", "SubmitFull"}
                         /\ q[i].play_id = r}
\* the intake events this step enqueues: the backlog at a start, the event sent
\* otherwise
Enqueued ==
    IF restarts' # restarts THEN irx'
    ELSE IF Len(irx') > Len(irx) THEN << irx'[Len(irx')] >>
    ELSE << >>

\* C14: a plays row whose submitted_end is set is not updated by any later step,
\* and no step enqueues SubmitStarted, SubmitEnded or SubmitFull for it, at a
\* start (the backlog) or in a run, as long as no database or filesystem call has
\* failed.
C14_SubmittedEndIsTerminal ==
    [][faults' = 0 =>
          \A r \in DOMAIN plays :
             plays[r].submitted_end # "None"
                => /\ plays'[r] = plays[r]
                   /\ SubmitsFor(Enqueued, r) = {}]_vars

\* ------------------------------------------------------------------ screenshots
\* this step handles ScreenshotCreated
HandlesScreenshot == events' = events + 1 /\ lastEv' .ev = "ScreenshotCreated"

\* C15: handling ScreenshotCreated(path) with current_play and previous_play both
\* none, the rename not failing, sends exactly one UploadExtra, for
\* extra_directory joined with the file name of path (where the file was
\* moved), and leaves current_play, previous_play, the plays rows, the singleton
\* and its pending writes as they were; nothing is sent to intake.
C15_ScreenshotWithoutPlay ==
    [][(HandlesScreenshot /\ current_play = << >> /\ previous_play = << >>
           /\ faults' = faults)
         => /\ srx' = Append(srx, [type |-> "UploadExtra",
                                   path |-> [dir |-> <<"pending_screenshots", "extra">>,
                                             name |-> lastEv' .path.name,
                                             ext |-> lastEv' .path.ext]])
            /\ <<current_play', previous_play', plays', current', writes', conn', irx'>>
                  = <<current_play, previous_play, plays, current, writes, conn, irx>>
      ]_vars

\* a screenshot was handled with no play, after a game was played and the
\* program restarted
C15_Witness ==
    /\ lastEv.ev = "ScreenshotCreated"
    /\ current_play = << >> /\ previous_play = << >>
    /\ plays # << >>
    /\ faults = 0
    /\ srx # << >> /\ srx[Len(srx)].type = "UploadExtra"

\* -------------------------------------------------------------------- backlog
\* the events for play r in a sequence of intake events
EventsFor(q, r) == SelectSeq(q, LAMBDA e : e.play_id = r)

\* C16: the backlog loaded at a start holds, for each plays row with submitted_end
\* null and skipped false, the event its (end_time, intake_id) gives:
\* (null, null) SubmitStarted, (null, set) nothing, (set, set) SubmitEnded with
\* that intake_id and end_time, (set, null) SubmitFull; nothing for a row with
\* submitted_end set or skipped; never two events for one play, and no event for
\* a play that is not in the table.
C16_BacklogMapping ==
    [][(restarts' # restarts /\ current = << >>)
         => /\ \A i \in DOMAIN irx' : irx'[i].play_id \in DOMAIN plays
            /\ \A r \in DOMAIN plays :
                  LET p == plays[r]
                      label == (CHOOSE g \in games : g.path = p.game).label
                      evs == EventsFor(irx', r)
                  IN  IF p.submitted_end # "None" \/ p.skipped THEN evs = << >>
                      ELSE IF p.end_time = "None" /\ p.intake_id = 0
                      THEN evs = << [type |-> "SubmitStarted", play_id |-> r,
                                     game_label |-> label,
                                     start_time |-> p.start_time] >>
                      ELSE IF p.end_time = "None" THEN evs = << >>
                      ELSE IF p.intake_id # 0
                      THEN evs = << [type |-> "SubmitEnded", play_id |-> r,
                                     intake_id |-> p.intake_id,
                                     end_time |-> p.end_time] >>
                      ELSE evs = << [type |-> "SubmitFull", play_id |-> r,
                                     game_label |-> label,
                                     start_time |-> p.start_time,
                                     end_time |-> p.end_time] >>
      ]_vars

\* a backlog was loaded from a table with an unfinished row that intake knows
\* and a finished row that it does not: it holds one SubmitFull, for the second
C16_Witness ==
    /\ restarts = 1
    /\ Len(plays) = 2
    /\ \A r \in 1..2 : plays[r].submitted_end = "None" /\ ~plays[r].skipped
    /\ plays[1].end_time = "None" /\ plays[1].intake_id # 0
    /\ plays[2].end_time # "None" /\ plays[2].intake_id = 0
    /\ Len(irx) = 1 /\ irx[1].type = "SubmitFull" /\ irx[1].play_id = 2

\* ---------------------------------------------------------- extension helpers
\* both helpers have been applied to file
BothApplied == applied = {"full_extension", "remove_full_extension"}
\* the path remove_full_extension left, with "." and the extension appended
Rejoined ==
    Append(SubSeq(stem_path, 1, Len(stem_path) - 1),
           stem_path[Len(stem_path)] \o <<".">> \o extension[1])

\* C17 as stated: if the basename of the path has a '.' after its first
\* character, what remove_full_extension leaves, '.' and what full_extension
\* returns make the path again; otherwise remove_full_extension leaves the path
\* as it is.
C17_RoundTripDotAfterFirstCharacter ==
    BothApplied =>
       IF file_name(file) # << >> /\ \E i \in Dots(file_name(file)[1]) : i > 1
       THEN extension # << >> /\ Rejoined = file
       ELSE stem_path = file

\* C17: if the first '.' of the basename of the path is not its first character,
\* what remove_full_extension leaves, '.' and what full_extension returns make
\* the path again; otherwise (no basename, no dot in it, or a basename that
\* starts with a dot) remove_full_extension leaves the path as it is.
C17_RoundTripFirstDotInside ==
    BothApplied =>
       IF file_name(file) # << >> /\ Dots(file_name(file)[1]) # {}
          /\ First(Dots(file_name(file)[1])) > 1
       THEN extension # << >> /\ Rejoined = file
       ELSE stem_path = file

\* a name with two dots (as foo.state.auto) was split at its first
C17_Witness ==
    /\ BothApplied
    /\ file = << <<"d">>, <<"f", ".", "o", ".", "o">> >>
    /\ stem_path = << <<"d">>, <<"f">> >>
    /\ extension = << <<"o", ".", "o">> >>

\* --------------------------------------------------------------- network blip
\* C18: when an HTTP request of intake fails (a connection timeout), intake
\* reports IsOnline(false) to the orchestrator: the step puts that event on the
\* orchestrator's queue.
C18_BlipReportsOffline ==
    [][blips' > blips
         => \E i \in DOMAIN orx' :
               /\ i > Len(orx)
               /\ orx'[i].type = "IsOnline"
               /\ ~orx'[i].online]_vars

\* ------------------------------------------------------------- after the end
\* this step handles a GameEnded that matches current_play, its database call
\* succeeding
EndsCurrentGame == HandlesGameEnded /\ lastEv' .success
\* the SubmitFull of a play
SubmitFullOf(play) ==
    [type |-> "SubmitFull", play_id |-> play.id, game_label |-> play.game.label,
     start_time |-> play.start_time, end_time |-> play.end_time]

\* C19 as stated: after a GameEnded that matches current_play, the play, with
\* its end_time, is current_play.
C19_EndedPlayStaysCurrent ==
    [][EndsCurrentGame
         => current_play' = << [current_play[1] EXCEPT !.end_time = "t"] >>]_vars

\* C19: a GameEnded that matches current_play sends exactly one SubmitFull, of the
\* play with its end_time, and leaves current_play none and the play, with its
\* end_time, as previous_play; while current_play is none the play stays
\* previous_play until the program restarts, and a screenshot handled meanwhile
\* (no filesystem call failing) is uploaded for the directory of its game.
C19_EndedPlayStaysPrevious ==
    [][/\ EndsCurrentGame
            => /\ current_play' = << >>
               /\ previous_play' = << [current_play[1] EXCEPT !.end_time = "t"] >>
               /\ irx' = Append(irx, SubmitFullOf(previous_play'[1]))
       /\ (current_play = << >> /\ previous_play # << >> /\ restarts' = restarts)
            => /\ previous_play' = previous_play
               /\ (HandlesScreenshot /\ faults' = faults)
                     => srx' = Append(srx,
                           [type |-> "UploadScreenshot",
                            path |-> [dir |-> <<"pending_screenshots",
                                                previous_play[1].game.directory>>,
                                      name |-> "now_milli", ext |-> lastEv' .path.ext],
                            directory |-> previous_play[1].game.directory])
      ]_vars

\* a screenshot was handled after the game had ended, and queued for its
\* directory
C19_Witness ==
    /\ lastEv.ev = "ScreenshotCreated"
    /\ current_play = << >>
    /\ previous_play # << >>
    /\ previous_play[1].end_time # "None"
    /\ srx # << >>
    /\ srx[Len(srx)].type = "UploadScreenshot"
    /\ srx[Len(srx)].directory = previous_play[1].game.directory
    /\ \E i \in DOMAIN irx : irx[i] = SubmitFullOf(previous_play[1])

\* ------------------------------------------------------- singleton persistence
\* C20: once every detached write of the singleton has run, none failing and the
\* orchestrator running, the singleton holds current_play.id, or nothing when
\* current_play is none, in whatever order the write tasks ran.
C20_SingletonKeepsUp ==
    (ostate = "running" /\ writes = << >> /\ conn = << >> /\ faults = 0)
    => current = IF current_play = << >> THEN << >> ELSE << current_play[1].id >>

\* -------------------------------------------------------------- priority slot
\* C21: when the handler returns Retry on a high-priority event the event is the
\* priority event afterwards, and the loop sleeps; while there is a priority
\* event the handler is invoked on it only, and not before the sleep is over;
\* when the handler returns Continue or ResetTimeout on it the slot is empty
\* afterwards (Halt ends the loop).
C21_PriorityEventRetried ==
    [][/\ (Invokes /\ LastLog' .high /\ LastLog' .action = "Retry")
            => /\ priority_event' # << >>
               /\ priority_event'[1].id = LastLog' .id
               /\ wake' >= now
               /\ pc' = "loop"
       /\ (Invokes /\ LastLog' .high
              /\ LastLog' .action \in {"Continue", "ResetTimeout"})
            => priority_event' = << >>
       /\ (Invokes /\ priority_event # << >>)
            => /\ LastLog' .id = priority_event[1].id
               /\ now >= wake
               /\ <<rx', buffer'>> = <<rx, buffer>>
      ]_vars

\* a high-priority event was retried after a sleep, an event sent meanwhile still
\* on the queue
C21_Witness ==
    /\ Len(log) >= 2
    /\ LastLog.high
    /\ log[Len(log) - 1].id = LastLog.id
    /\ log[Len(log) - 1].action = "Retry"
    /\ LastLog.at > log[Len(log) - 1].at
    /\ rx # << >>

\* ------------------------------------------------------------- normal retries
\* this step hands an event received while a retry deadline is pending on
ArrivalDuringWait ==
    pc = "dispatch" /\ pc' # pc /\ event # << >> /\ retry_deadline # << >>

\* C22: when the handler returns Retry on a normal event the event is back at the
\* front of the buffer and two deadlines are stored, the time of the failure plus
\* min(elapsed, retries * 5 s) and plus min(elapsed, retries * 30 s); the handler
\* is invoked on a buffered normal event only once the pending deadline has been
\* consumed, which happens only with nothing on the queue and the deadline that
\* is_online selects at that moment reached; an event that arrives before is
\* handled if high-priority and appended to the buffer if normal, the deadlines
\* unchanged.
C22_NormalRetryDeadlines ==
    [][/\ (Invokes /\ ~LastLog' .high /\ LastLog' .action = "Retry")
            => /\ buffer' # << >>
               /\ buffer'[1].id = LastLog' .id
               /\ normal_retry' = normal_retry + 1
               /\ retry_deadline' =
                    << [online |-> now + Min(now, Min(normal_retry', retry_cap) * 5),
                        offline |-> now + Min(now, Min(normal_retry', retry_cap) * 30)] >>
       /\ (Invokes /\ ~LastLog' .high) => retry_deadline = << >>
       /\ TimeoutFires
            => /\ rx = << >>
               /\ event' = << >>
               /\ is_online => now >= retry_deadline[1].online
               /\ ~is_online => now >= retry_deadline[1].offline
       /\ ArrivalDuringWait
            => /\ retry_deadline' = retry_deadline
               /\ IF event[1].high
                  THEN Invokes /\ LastLog' .id = event[1].id /\ buffer' = buffer
                  ELSE ~Invokes /\ buffer' = Append(buffer, event[1])
      ]_vars

\* a normal event failed online, IsOnline(false) was handled during the wait and
\* the event was retried at the offline deadline, later than the online one; a
\* normal event sent during the wait is in the buffer behind it
C22_Witness ==
    /\ Len(log) >= 3
    /\ ~LastLog.high
    /\ LET failed == log[Len(log) - 2]
           told == log[Len(log) - 1]
       IN /\ failed.id = LastLog.id
          /\ failed.action = "Retry"
          /\ told.online = "off"
          /\ LastLog.at = failed.at + Min(failed.at, offline_secs)
          /\ LastLog.at > failed.at + online_secs
          /\ \E i \in DOMAIN buffer :
                ~buffer[i].high /\ buffer[i].id # failed.id /\ buffer[i].at < LastLog.at

\* --------------------------------------------------------------- ResetTimeout
\* C23: after the handler returned ResetTimeout, on a high-priority or on a
\* normal event, the priority retry counter and the normal retry counter are both
\* clear; a Retry right after it is a first retry, its wait one base interval
\* (5 s online, 30 s offline, at most the age of the loop).
C23_ResetTimeoutClearsBoth ==
    [][/\ (Invokes /\ LastLog' .action = "ResetTimeout")
            => priority_retry' = 0 /\ normal_retry' = 0
       /\ (Invokes /\ log # << >> /\ LastLog.action = "ResetTimeout"
              /\ LastLog' .action = "Retry")
            => IF LastLog' .high
               THEN /\ priority_retry' = 1
                    /\ wake' = now + Min(now, IF is_online THEN 5 ELSE 30)
               ELSE /\ normal_retry' = 1
                    /\ retry_deadline' = << [online |-> now + Min(now, 5),
                                             offline |-> now + Min(now, 30)] >>
      ]_vars

\* a high-priority event answered ResetTimeout while a normal event was waiting
\* for its retry deadline
C23_Witness ==
    /\ log # << >>
    /\ LastLog.high
    /\ LastLog.action = "ResetTimeout"
    /\ retry_deadline # << >>
    /\ buffer # << >>
    /\ now > 0
    /\ normal_retry = 0

\* ----------------------------------------------------------------- SubmitFull
\* this step is intake's successful handling of the SubmitFull at the front of
\* its buffer
HandlesSubmitFull ==
    /\ istate = "running"
    /\ ibuffer # << >>
    /\ Head(ibuffer).type = "SubmitFull"
    /\ ibuffer' = Tail(ibuffer)
    /\ irx' = irx
    /\ restarts' = restarts

\* C24: when intake handles SubmitFull for a play in play_to_intake, the remote
\* gets no new row, the mapped row alone is patched with the end time and
\* IntakeEnded{play_id} is put on the orchestrator's queue; for a play not in the
\* map the remote gets one new row with the start and the end time, no row is
\* patched and IntakeFull{play_id, intake_id of the new row, submitted_start =
\* submitted_end} is put on the queue; one message per SubmitFull either way.
C24_SubmitFullPatchOrPost ==
    [][HandlesSubmitFull =>
         LET e == Head(ibuffer) IN
         IF e.play_id \in DOMAIN play_to_intake
         THEN /\ Len(remote') = Len(remote)
              /\ \A r \in DOMAIN remote :
                    IF r = play_to_intake[e.play_id]
                    THEN /\ remote'[r].endTime = e.end_time
                         /\ remote'[r].patches = remote[r].patches + 1
                         /\ remote'[r].startTime = remote[r].startTime
                    ELSE remote'[r] = remote[r]
              /\ ostate = "running"
                    => /\ Len(orx') = Len(orx) + 1
                       /\ orx'[Len(orx')].type = "IntakeEnded"
                       /\ orx'[Len(orx')].play_id = e.play_id
         ELSE /\ Len(remote') = Len(remote) + 1
              /\ \A r \in DOMAIN remote : remote'[r] = remote[r]
              /\ remote'[Len(remote')].startTime = e.start_time
              /\ remote'[Len(remote')].endTime = e.end_time
              /\ remote'[Len(remote')].patches = 0
              /\ ostate = "running"
                    => /\ Len(orx') = Len(orx) + 1
                       /\ orx'[Len(orx')].type = "IntakeFull"
                       /\ orx'[Len(orx')].play_id = e.play_id
                       /\ orx'[Len(orx')].intake_id = Len(remote')
                       /\ orx'[Len(orx')].submitted_start = orx'[Len(orx')].submitted_end
      ]_vars

\* a play whose start was never submitted was created on the remote whole, by
\* one POST and no PATCH, and IntakeFull is on its way to the orchestrator
C24_Witness ==
    /\ orx # << >>
    /\ orx[Len(orx)].type = "IntakeFull"
    /\ remote # << >>
    /\ remote[orx[Len(orx)].intake_id].endTime # "None"
    /\ remote[orx[Len(orx)].intake_id].patches = 0

\* ---------------------------------------------------------- failed submission
\* this step is a failed request of intake
SubmissionFails == blips' = blips + 1

\* C25: when a request of intake fails, the event at the front of its buffer is
\* a submission and stays there, play_to_intake and the remote are as before and
\* nothing is put on the orchestrator's queue; and while intake's loop lives an
\* event leaves the front of the buffer only by being handled successfully
\* (PreviousGame, or a submission that changed the remote), so the failed event
\* is attempted again before any event behind it.
C25_FailedSubmissionStaysFirst ==
    [][/\ SubmissionFails
            => /\ ibuffer # << >>
               /\ Head(ibuffer).type \in {"SubmitStarted", "SubmitEnded", "SubmitFull"}
               /\ ibuffer' = ibuffer
               /\ play_to_intake' = play_to_intake
               /\ remote' = remote
               /\ orx' = orx
       /\ (ibuffer # << >> /\ restarts' = restarts)
            => \/ ibuffer' # << >> /\ ibuffer'[1] = ibuffer[1]
                                  /\ Len(ibuffer') >= Len(ibuffer)
               \/ /\ ibuffer' = Tail(ibuffer)
                  /\ Head(ibuffer).type = "PreviousGame" \/ remote' # remote
      ]_vars

\* the POST of SubmitStarted failed while the SubmitFull of the same play was
\* already behind it in the buffer
C25_Witness ==
    /\ blips = 1
    /\ remote = << >>
    /\ Len(ibuffer) >= 2
    /\ ibuffer[1].type = "SubmitStarted"
    /\ ibuffer[2].type = "SubmitFull"

\* -------------------------------------------------------------- play_to_intake
\* this step is intake's successful handling of the event at the front of its
\* buffer
IntakeSucceeds ==
    /\ istate = "running"
    /\ ibuffer # << >>
    /\ ibuffer' = Tail(ibuffer)
    /\ irx' = irx
    /\ restarts' = restarts

\* the map m with key k taken out
Without(m, k) == [x \in DOMAIN m \ {k} |-> m[x]]

\* C26: play_to_intake is empty when a process starts and changes only when
\* intake handles an event: PreviousGame puts its play in with the rowid it
\* carries, a successful SubmitStarted puts its play in with the rowid of the row
\* just created, a successful SubmitEnded, or SubmitFull on a play that is in the
\* map, takes its play out; the other entries stay, and nothing else (a failed
\* request, a SubmitFull that creates the row whole) touches the map.
C26_PlayToIntakeKeys ==
    [][/\ restarts' = restarts + 1 => play_to_intake' = << >>
       /\ (IntakeSucceeds /\ Head(ibuffer).type = "PreviousGame")
            => /\ Head(ibuffer).play_id \in DOMAIN play_to_intake'
               /\ play_to_intake'[Head(ibuffer).play_id] = Head(ibuffer).intake_id
               /\ Without(play_to_intake', Head(ibuffer).play_id)
                     = Without(play_to_intake, Head(ibuffer).play_id)
       /\ (IntakeSucceeds /\ Head(ibuffer).type = "SubmitStarted")
            => /\ Head(ibuffer).play_id \in DOMAIN play_to_intake'
               /\ Len(remote') = Len(remote) + 1
               /\ play_to_intake'[Head(ibuffer).play_id] = Len(remote')
               /\ Without(play_to_intake', Head(ibuffer).play_id)
                     = Without(play_to_intake, Head(ibuffer).play_id)
       /\ (IntakeSucceeds /\ \/ Head(ibuffer).type = "SubmitEnded"
                              \/ /\ Head(ibuffer).type = "SubmitFull"
                                 /\ Head(ibuffer).play_id \in DOMAIN play_to_intake)
            => /\ Len(remote') = Len(remote)
               /\ play_to_intake' = Without(play_to_intake, Head(ibuffer).play_id)
       /\ (restarts' = restarts
              /\ ~(IntakeSucceeds /\ Head(ibuffer).type
                                       \in {"PreviousGame", "SubmitStarted", "SubmitEnded"})
              /\ ~(IntakeSucceeds /\ Head(ibuffer).type = "SubmitFull"
                                  /\ Head(ibuffer).play_id \in DOMAIN play_to_intake))
            => play_to_intake' = play_to_intake
      ]_vars

\* after a restart the play still being played was seeded by PreviousGame, and
\* the PATCH of its SubmitFull then took it out of the map
C26_Witness ==
    /\ restarts = 1
    /\ warm # 0
    /\ istate = "running"
    /\ DOMAIN play_to_intake = {}
    /\ \E r \in DOMAIN remote : remote[r].patches = 1

\* -------------------------------------------------------------------- startup
\* the plays row the singleton references, if any
Referenced ==
    IF Len(current) > 0
    THEN IF current[1] \in DOMAIN plays THEN << plays[current[1]] >> ELSE << >>
    ELSE << >>

\* events of a sequence that are submissions
Submissions(q) == SelectSeq(q, LAMBDA e : e.type # "PreviousGame")

\* C27: at a start, before any event is handled, intake's queue holds
\* PreviousGame{play_id, intake_id} exactly when the singleton references a play
\* with end_time null and intake_id set, as its first event and for that play,
\* followed by one submission for each play that has one outstanding; intake's
\* buffer and map are empty; current_play is the referenced play, or none. The
\* main loop only appends to that queue, and never a PreviousGame.
C27_StartupSeedsIntake ==
    [][/\ restarts' = restarts + 1
            => LET seeded == /\ Referenced # << >>
                             /\ Referenced[1].end_time = "None"
                             /\ Referenced[1].intake_id # 0
               IN  /\ events' = events
                   /\ ibuffer' = << >> /\ play_to_intake' = << >>
                   /\ seeded <=> (\E i \in DOMAIN irx' : irx'[i].type = "PreviousGame")
                   /\ seeded => irx'[1] = [type |-> "PreviousGame",
                                           play_id |-> current[1],
                                           intake_id |-> Referenced[1].intake_id]
                   /\ \A i \in DOMAIN irx' : i > 1 => irx'[i].type # "PreviousGame"
                   /\ \A r \in DOMAIN plays :
                         Len(EventsFor(Submissions(irx'), r)) =
                           IF \/ plays[r].submitted_end # "None"
                              \/ plays[r].skipped
                              \/ plays[r].end_time = "None" /\ plays[r].intake_id # 0
                           THEN 0 ELSE 1
                   /\ IF Referenced = << >> THEN current_play' = << >>
                      ELSE /\ current_play' # << >>
                           /\ current_play'[1].id = current[1]
                           /\ current_play'[1].end_time = Referenced[1].end_time
                           /\ current_play'[1].intake_id = Referenced[1].intake_id
       /\ restarts' = restarts
            => \/ irx' = irx
               \/ irx # << >> /\ irx' = Tail(irx)
               \/ /\ Len(irx') = Len(irx) + 1
                  /\ SubSeq(irx', 1, Len(irx)) = irx
                  /\ irx'[Len(irx')].type # "PreviousGame"
      ]_vars

\* a start found the play still being played, known to intake, and another play
\* never submitted: PreviousGame is the first event on intake's queue, the
\* SubmitFull of the backlog the second, and the SubmitStarted of a game
\* started since came after them
C27_Witness ==
    /\ restarts = 1
    /\ Len(irx) >= 3
    /\ irx[1].type = "PreviousGame"
    /\ irx[2].type = "SubmitFull"
    /\ irx[2].play_id # irx[1].play_id
    /\ irx[Len(irx)].type = "SubmitStarted"
    /\ irx[Len(irx)].play_id = Len(plays)
    /\ events = 1

\* -------------------------------------------------------------- online fan-out
\* this step is the orchestrator handling IsOnline
HandlesIsOnline == events' = events + 1 /\ lastEv' .ev = "IsOnline"

\* intake, screenshots and saves all have is_online = b
AllOnline(b) == intake_is_online = b /\ is_online = b /\ saves.is_online = b

\* C28: when the orchestrator handles IsOnline(b), posted to /online or /offline
\* or reported by an uploader, IsOnline(b) is put at the back of the queues of
\* intake, screenshots and saves; and, the three loops running, once it has
\* handled IsOnline(b) either it handles an IsOnline of the other value later or
\* intake, screenshots and saves all come to have is_online = b.
C28_IsOnlineFanOut ==
    /\ [][HandlesIsOnline
            => /\ orx # << >>
               /\ Head(orx).type = "IsOnline"
               /\ lastEv' .online = Head(orx).online
               /\ irx' = Append(irx, [type |-> "IsOnline", online |-> Head(orx).online])
               /\ saves' .rx = Append(saves.rx, [type |-> "IsOnline",
                                                 online |-> Head(orx).online])
               /\ Len(rx') = Len(rx) + 1
               /\ SubSeq(rx', 1, Len(rx)) = rx
               /\ rx'[Len(rx')].high
               /\ rx'[Len(rx')].online = IF Head(orx).online THEN "on" ELSE "off"
         ]_vars
    /\ \A b \in BOOLEAN :
          (lastEv.ev = "IsOnline" /\ lastEv.online = b)
             ~> (AllOnline(b) \/ (lastEv.ev = "IsOnline" /\ lastEv.online # b))

\* an upload of saves timed out, the IsOnline(false) it reported was fanned out
\* and intake, screenshots and saves are all offline
C28_Witness ==
    /\ events = 1
    /\ lastEv.ev = "IsOnline"
    /\ ~lastEv.online
    /\ saves.failed = 1
    /\ orx = << >>
    /\ AllOnline(FALSE)

\* -------------------------------------------------------------------- uploads
\* this step is Screenshots::handle on the upload event at the front of the buffer
HandlesUpload == Invokes /\ ~LastLog' .high

\* this step is the saves loop handling the front of its buffer
SavesHandles ==
    /\ saves.buffer # << >>
    /\ saves' # saves
    /\ saves' .rx = saves.rx
    /\ saves' .sent = saves.sent

\* C29: in screenshots and in saves a pending file is removed only once it has
\* been uploaded, in the step that uploaded it; a step whose upload fails leaves
\* the files alone and the event at the front of the buffer (Retry in
\* screenshots), to be handled again; a step whose upload works takes the event
\* out of the buffer (Continue), the file removed or, the removal failing, left
\* behind.
C29_RemoveOnlyAfterUpload ==
    [][/\ shots' .removed \subseteq shots' .uploaded
       /\ saves' .removed \subseteq saves' .uploaded
       /\ HandlesUpload
            => LET id == LastLog' .id IN
               /\ buffer # << >> /\ Head(buffer).id = id
               /\ IF id \in shots' .uploaded
                  THEN /\ LastLog' .action = "Continue"
                       /\ buffer' = Tail(buffer)
                       /\ shots' .uploaded = shots.uploaded \cup {id}
                       /\ shots' .removed \in {shots.removed, shots.removed \cup {id}}
                  ELSE /\ LastLog' .action = "Retry"
                       /\ buffer' = buffer
                       /\ shots' = shots
       /\ ~HandlesUpload => shots' = shots
       /\ SavesHandles
            => LET id == Head(saves.buffer).id IN
               IF id \in saves' .uploaded
               THEN /\ saves' .buffer = Tail(saves.buffer)
                    /\ saves' .uploaded = saves.uploaded \cup {id}
                    /\ saves' .removed \in {saves.removed, saves.removed \cup {id}}
               ELSE /\ saves' .buffer = saves.buffer
                    /\ saves' .uploaded = saves.uploaded
                    /\ saves' .removed = saves.removed
                    /\ saves' .retry_deadline = "Some"
       /\ ~SavesHandles
            => saves' .uploaded = saves.uploaded /\ saves' .removed = saves.removed
      ]_vars

\* screenshots uploaded its first file at the second attempt and could not remove
\* it, then uploaded and removed the second; saves uploaded a file and could not
\* remove it
C29_Witness ==
    /\ Retried >= 1
    /\ log[1].action = "Retry"
    /\ shots.uploaded = {1, 2}
    /\ shots.removed = {2}
    /\ buffer = << >>
    /\ saves.uploaded = {1}
    /\ saves.removed = {}
    /\ saves.buffer = << >>

\* ------------------------------------------------------- screenshot directory
\* the play screenshots are attributed to: current_play, or else previous_play
Addressed == IF Len(current_play) > 0 THEN current_play ELSE previous_play

\* C30: a ScreenshotCreated handled, no call failing, while there is a current or
\* a previous play puts UploadScreenshot on the screenshots queue with the game
\* directory of current_play if there is one and of previous_play otherwise, the
\* file moved under that directory; and, within a run, while the play screenshots
\* are attributed to is an ended one and no game becomes current, it stays that
\* play.
C30_ScreenshotDirectory ==
    [][/\ (HandlesScreenshot /\ faults' = faults /\ Addressed # << >>)
            => /\ Len(srx') = Len(srx) + 1
               /\ SubSeq(srx', 1, Len(srx)) = srx
               /\ srx'[Len(srx')].type = "UploadScreenshot"
               /\ srx'[Len(srx')].directory = Addressed[1].game.directory
               /\ srx'[Len(srx')].path.dir
                     = <<"pending_screenshots", Addressed[1].game.directory>>
       /\ (restarts' = restarts /\ Addressed # << >> /\ current_play' = << >>
              /\ current_play = << >>)
            => Addressed' = Addressed
       /\ EndsCurrentGame
            => Addressed' = << [current_play[1] EXCEPT !.end_time = "t"] >>
      ]_vars

\* a screenshot was handled while a game was live, a play of another game being
\* the previous one, and queued for the live game's directory
C30_Witness ==
    /\ lastEv.ev = "ScreenshotCreated"
    /\ ~lastEv.errors
    /\ current_play # << >>
    /\ previous_play # << >>
    /\ previous_play[1].game.directory # current_play[1].game.directory
    /\ srx # << >>
    /\ srx[Len(srx)].type = "UploadScreenshot"
    /\ srx[Len(srx)].directory = current_play[1].game.directory

\* ------------------------------------------------------ intake acknowledgements
\* the orchestrator takes an IntakeStarted, IntakeEnded or IntakeFull off its queue
HandlesAck ==
    /\ orx # << >>
    /\ orx' = Tail(orx)
    /\ Head(orx).type \in {"IntakeStarted", "IntakeEnded", "IntakeFull"}
    /\ restarts' = restarts
\* the fields of a play or of a row the acknowledgement e sets
AckSets(p, e) ==
    IF e.type = "IntakeStarted"
    THEN [p EXCEPT !.intake_id = e.intake_id, !.submitted_start = e.submitted_start]
    ELSE IF e.type = "IntakeEnded"
    THEN [p EXCEPT !.submitted_end = e.submitted_end]
    ELSE [p EXCEPT !.intake_id = e.intake_id, !.submitted_start = e.submitted_start,
                   !.submitted_end = e.submitted_end]

\* C31: handling IntakeStarted, IntakeEnded or IntakeFull for play_id, the database
\* call not failing, sets the fields of the event in the row play_id of plays and
\* leaves every other row alone, whether or not play_id is the current play;
\* current_play gets the same fields when its id is play_id and is untouched
\* otherwise; previous_play is never touched.
C31_AckPersistedForAnyPlay ==
    [][HandlesAck =>
         LET e == Head(orx) IN
         /\ faults' = faults =>
               /\ DOMAIN plays' = DOMAIN plays
               /\ \A r \in DOMAIN plays :
                     plays'[r] = IF r = e.play_id THEN AckSets(plays[r], e)
                                 ELSE plays[r]
               /\ lastEv' .success
         /\ (current_play # << >> /\ current_play[1].id = e.play_id)
               => current_play' = << AckSets(current_play[1], e) >>
         /\ (current_play = << >> \/ current_play[1].id # e.play_id)
               => current_play' = current_play
         /\ previous_play' = previous_play
      ]_vars

\* an IntakeFull was handled for a play of the backlog while another play was
\* current: the row of that play has the submission, current_play has none
C31_Witness ==
    /\ lastEv.ev = "IntakeFull"
    /\ lastEv.success
    /\ current_play # << >>
    /\ current_play[1].submitted_end = "None"
    /\ current_play[1].intake_id = 0
    /\ \E r \in DOMAIN plays :
          /\ r # current_play[1].id
          /\ plays[r].submitted_end = "t"
          /\ plays[r].intake_id # 0

\* -------------------------------------------------------------------- shutdown
\* the orchestrator handles StartShutdown
HandlesStartShutdown == ostate = "running" /\ ostate' = "halted"
\* the queue q got exactly one more event, a StartShutdown
OneShutdownMore(q, qq) ==
    /\ Len(qq) = Len(q) + 1
    /\ SubSeq(qq, 1, Len(q)) = q
    /\ qq[Len(qq)].type = "StartShutdown"

\* C32: the handling of StartShutdown puts exactly one StartShutdown on the queue
\* of intake, of screenshots, of saves (while it runs), of the two watchers, of
\* the HTTP server and of the notifier, and the orchestrator leaves its loop; from
\* then on, within the run, nothing is taken off its queue, no event is handled,
\* current_play, previous_play and the plays table stay as they are and nothing
\* more is sent to those queues.
C32_ShutdownFanOutThenExit ==
    [][/\ HandlesStartShutdown =>
             /\ OneShutdownMore(irx, irx')
             /\ OneShutdownMore(srx, srx')
             /\ saves.state = "running" => OneShutdownMore(saves.rx, saves' .rx)
             /\ \A q \in {"screenshot_watcher", "save_watcher", "server", "notify"} :
                   OneShutdownMore(downstream[q], downstream'[q])
             /\ UNCHANGED <<current_play, previous_play, plays, orx>>
       /\ (ostate = "halted" /\ restarts' = restarts) =>
             /\ UNCHANGED <<ostate, orx, lastEv, current_play, previous_play, plays,
                            srx, downstream, events>>
             /\ Len(irx') <= Len(irx)
             /\ Len(saves' .rx) <= Len(saves.rx)
      ]_vars

\* the orchestrator has left its loop with an acknowledgement of intake still on
\* its queue, and intake has gone on working since
C32_Witness ==
    /\ ostate = "halted"
    /\ lastEv.ev = "StartShutdown"
    /\ orx # << >>
    /\ istate = "halted"
    /\ Len(downstream.notify) = 1
    /\ Len(downstream.server) = 1

\* ------------------------------------------------------------ database errors
\* the orchestrator handles a game signal or an acknowledgement of intake and a
\* call made for it fails without a row having been written
DatabaseCallFails ==
    /\ faults' = faults + 1
    /\ plays' = plays
    /\ restarts' = restarts
    /\ events' = events + 1 \/ (orx # << >> /\ orx' = Tail(orx))
    /\ lastEv' .ev \in {"GameStarted", "GameEnded", "IntakeStarted", "IntakeEnded",
                        "IntakeFull"}

\* C33: when a database call made for an event fails, the orchestrator notifies
\* an error, keeps running, and current_play and previous_play are what they were
\* before the event.
C33_DatabaseErrorDropsEvent ==
    [][DatabaseCallFails =>
          /\ lastEv' .errors
          /\ ostate' = "running"
          /\ current_play' = current_play
          /\ previous_play' = previous_play]_vars

\* ---------------------------------------------------------------- GameStarted
\* the orchestrator handles a GameStarted
HandlesGameStarted ==
    /\ events' = events + 1
    /\ lastEv' .ev = "GameStarted"
    /\ restarts' = restarts
\* the GameStarted handled is for a path under the prefix with a game in the
\* games table, and no call made for it fails
StartsKnownGame ==
    /\ HandlesGameStarted
    /\ faults' = faults
    /\ lastEv' .path \in {<<"roms", "a.gba">>, <<"roms", "b.gba">>}

\* C34: a GameStarted of a known game handled while there is a current play, no
\* call failing, notifies an error, inserts one plays row, makes the new play
\* current_play and the play that was current previous_play, whatever
\* previous_play was, and sends intake one SubmitStarted, for the new play.
C34_StartWhileLive ==
    [][(StartsKnownGame /\ current_play # << >>) =>
          /\ lastEv' .errors
          /\ Len(plays') = Len(plays) + 1
          /\ SubSeq(plays', 1, Len(plays)) = plays
          /\ plays'[Len(plays')].game = Tail(lastEv' .path)
          /\ plays'[Len(plays')].end_time = "None"
          /\ Len(current_play') = 1
          /\ current_play'[1].id = Len(plays')
          /\ current_play'[1].game.path = Tail(lastEv' .path)
          /\ current_play'[1].end_time = "None"
          /\ current_play'[1].intake_id = 0
          /\ previous_play' = current_play
          /\ Len(irx') = Len(irx) + 1
          /\ SubSeq(irx', 1, Len(irx)) = irx
          /\ irx'[Len(irx')].type = "SubmitStarted"
          /\ irx'[Len(irx')].play_id = Len(plays')
          /\ irx'[Len(irx')].game_label = current_play'[1].game.label
      ]_vars

\* three games were started without one being ended: the third is current, and
\* the second has replaced the first as previous_play
C34_Witness ==
    /\ lastEv.ev = "GameStarted"
    /\ lastEv.errors
    /\ Len(plays) = 3
    /\ current_play # << >>
    /\ current_play[1].id = 3
    /\ previous_play # << >>
    /\ previous_play[1].id = 2
    /\ previous_play[1].end_time = "None"

\* C35: a GameStarted for a path that is not under the configured prefix notifies
\* an error and inserts no plays row; a GameStarted with a failing call notifies
\* an error; and a GameStarted that ends without a plays row inserted has
\* notified an error and left current_play, previous_play and the singleton (its
\* rows and the writes queued for it) as they were and sent intake nothing.
C35_FailedStartChangesNothing ==
    [][/\ (HandlesGameStarted /\ Head(lastEv' .path) # "roms") =>
             (lastEv' .errors /\ plays' = plays)
       /\ (HandlesGameStarted /\ faults' = faults + 1) => lastEv' .errors
       /\ (HandlesGameStarted /\ plays' = plays) =>
             /\ lastEv' .errors
             /\ ~lastEv' .success
             /\ UNCHANGED <<current_play, previous_play, current, writes, conn, irx,
                            ostate>>
      ]_vars

\* game A is being played and a GameStarted of game B has failed: there is still
\* only the play of game A
C35_Witness ==
    /\ lastEv.ev = "GameStarted"
    /\ lastEv.path = <<"roms", "b.gba">>
    /\ lastEv.errors
    /\ faults = 1
    /\ Len(plays) = 1
    /\ current_play # << >>
    /\ current_play[1].id = 1
    /\ current_play[1].game.path = <<"a.gba">>
    /\ previous_play = << >>
    /\ irx # << >>
    /\ irx[Len(irx)].type = "SubmitStarted"

\* ------------------------------------------------------------------ ForceSync
\* the orchestrator takes a ForceSync off its queue
HandlesForceSync ==
    /\ orx # << >>
    /\ Head(orx).type = "ForceSync"
    /\ orx' = Tail(orx)
\* a ForceSync is on the queue q
ForceSyncOn(q) == \E i \in DOMAIN q : q[i].type = "ForceSync"

ShutdownQueued ==
    \/ istate = "running" /\ \E i \in DOMAIN irx : irx[i].type = "StartShutdown"
    \/ pc # "halted" /\ \E i \in DOMAIN rx : rx[i].online = "halt"
    \/ /\ saves.state = "running"
       /\ \E i \in DOMAIN saves.rx : saves.rx[i].type = "StartShutdown"

\* C37: shutdown preempts retries: an uploader that has been sent StartShutdown
\* while its front event keeps failing does not wait for the time of its next
\* retry (no time passes while the StartShutdown is in the queue of a running
\* uploader) and makes no request after the StartShutdown was sent
C37_ShutdownPreemptsRetries ==
    [][ShutdownQueued => now' = now /\ blips' = blips /\ remote' = remote]_vars

\* ---------------------------------------------------------------------- C38
\* C38: every upload request carries the digest of the content that is uploaded
\* (also when the path was uploaded before with other content): the digest in
\* the URL of the last request of saves is the SHA-1 of the body it sent
C38_DigestOfUploadedContent ==
    saves.request # << >>
        => saves.request[1].digest = << sha1(saves.request[1].body) >>

\* ---------------------------------------------------------------------- C39
\* C39: the scan of extra_directory spawned at startup and the main loop never
\* both send UploadExtra for the same path: the scan sends no UploadExtra for a
\* path for which the queue of this run already holds one (sent by the main
\* loop for a screenshot it moved there)
C39_ScanAndLoopSendOnce ==
    [][shots.scan = "spawned" /\ shots' .scan = "done"
          => \A i \in DOMAIN srx, j \in (Len(srx) + 1)..Len(srx') :
                ~(srx[i].type = "UploadExtra" /\ srx'[j].path = srx[i].path)]_vars

\* ---------------------------------------------------------------------- C40
\* the loop is at its receive and the queue it receives from is closed and empty
ClosedAndDrained ==
    closed /\ rx = << >> /\ pc = "loop" /\ priority_event = << >>

\* C40: once every sender of the queue is dropped the loop terminates, whatever
\* its buffer and retry deadline: the receive that finds the queue closed and
\* empty ends the loop, and the front event of the buffer is never handled
\* again before its retry deadline
C40_ClosedQueueEndsLoop ==
    [][/\ ClosedAndDrained /\ pc' # pc => pc' = "halted"
       /\ (closed /\ retry_deadline # << >> /\ Len(log') > Len(log)
              /\ log'[Len(log')].high = FALSE)
             => now >= chosen_deadline(retry_deadline[1], is_online)]_vars

====
